---------------------------- MODULE Spec2Model ----------------------------
(***************************************************************************)
(* Slice & Stitch: the two export pipelines of src/utils/canvasUtils.ts    *)
(* (generateNineGrid, generateStitchedImage), the on-screen previews they  *)
(* must agree with, and the crop and item editors that produce their       *)
(* inputs.                                                                 *)
(*                                                                         *)
(* JavaScript numbers are modelled as exact rationals <<n, d>>, d > 0, in  *)
(* lowest terms; the canvas' current transformation matrix is modelled as  *)
(* a uniform scale plus a translation, which is all the code ever builds.  *)
(***************************************************************************)
EXTENDS Integers, Sequences, FiniteSets, TLC

(***************************************************************************)
(* Exact rational arithmetic.                                              *)
(***************************************************************************)
RECURSIVE GCD(_, _)
GCD(a, b) == IF b = 0 THEN a ELSE GCD(b, a % b)

Abs(a) == IF a < 0 THEN -a ELSE a

Rat(n, d) ==
  LET s == IF d < 0 THEN -1 ELSE 1
      g == GCD(Abs(n), Abs(d))
  IN  <<(s * n) \div g, (s * d) \div g>>

RInt(n) == <<n, 1>>

RAdd(p, q) ==
  LET g == GCD(p[2], q[2])
  IN  Rat(p[1] * (q[2] \div g) + q[1] * (p[2] \div g), (p[2] \div g) * q[2])

RNeg(p) == <<-p[1], p[2]>>

RSub(p, q) == RAdd(p, RNeg(q))

\* The factors are cancelled crosswise before multiplying, so that the
\* intermediate products stay as small as the result allows.
RMul(p, q) ==
  LET g1 == GCD(Abs(p[1]), q[2])
      g2 == GCD(Abs(q[1]), p[2])
  IN  Rat((p[1] \div g1) * (q[1] \div g2), (p[2] \div g2) * (q[2] \div g1))

RInv(p) == IF p[1] < 0 THEN <<-p[2], -p[1]>> ELSE <<p[2], p[1]>>

RDiv(p, q) == RMul(p, RInv(q))

RLt(p, q) == RSub(p, q)[1] < 0

RLe(p, q) == RSub(p, q)[1] <= 0

RGt(p, q) == RLt(q, p)

RGe(p, q) == RLe(q, p)

RFloor(p) == p[1] \div p[2]

RMax(p, q) == IF RLt(p, q) THEN q ELSE p

RMin(p, q) == IF RLt(q, p) THEN q ELSE p

RHalf(p) == RDiv(p, RInt(2))

\* floor(sqrt(n)) for a natural number n.
RECURSIVE ISqrt(_)
ISqrt(n) ==
  IF n < 2 THEN n
  ELSE LET r == 2 * ISqrt(n \div 4)
       IN  IF (r + 1) * (r + 1) <= n THEN r + 1 ELSE r


(***************************************************************************)
(* The 2D drawing context: its current transformation matrix maps a point  *)
(* p of user space to a * p + (e, f) on the surface.                       *)
(***************************************************************************)
CtxIdentity == [a |-> RInt(1), e |-> RInt(0), f |-> RInt(0)]

\* ctx.translate(tx, ty)
CtxTranslate(m, tx, ty) ==
  [a |-> m.a, e |-> RAdd(m.e, RMul(m.a, tx)), f |-> RAdd(m.f, RMul(m.a, ty))]

\* ctx.scale(s, s)
CtxScale(m, s) == [a |-> RMul(m.a, s), e |-> m.e, f |-> m.f]

\* ctx.drawImage(img, dx, dy, dw, dh): the rectangle the image covers on the
\* surface, with its centre.
DrawImage(m, dx, dy, dw, dh) ==
  LET x == RAdd(m.e, RMul(m.a, dx))
      y == RAdd(m.f, RMul(m.a, dy))
      w == RMul(m.a, dw)
      h == RMul(m.a, dh)
  IN  [x |-> x, y |-> y, w |-> w, h |-> h,
       cx |-> RAdd(x, RHalf(w)), cy |-> RAdd(y, RHalf(h))]

NoRect == [x |-> RInt(0), y |-> RInt(0), w |-> RInt(0), h |-> RInt(0),
           cx |-> RInt(0), cy |-> RInt(0)]

(***************************************************************************)
(* Inputs of the model.                                                    *)
(***************************************************************************)
\* Intrinsic sizes <<width, height>> of the images a user may pick.
Img500x500 == <<500, 500>>

Img2000x3000 == <<2000, 3000>>

Img3000x2000 == <<3000, 2000>>

Img1621x1081 == <<1621, 1081>>

Img7200x4800 == <<7200, 4800>>

GridImages == {Img500x500, Img2000x3000, Img3000x2000, Img1621x1081}

\* States of the 9-Grid editor's crop: pan in preview pixels, scale within
\* the editor's [0.2, 3.0].
Crops ==
  { [x |-> RInt(0),   y |-> RInt(0),   scale |-> RInt(1)],
    [x |-> RInt(30),  y |-> RInt(-50), scale |-> Rat(3, 2)],
    [x |-> RInt(-40), y |-> RInt(0),   scale |-> Rat(1, 5)],
    [x |-> RInt(0),   y |-> RInt(20),  scale |-> RInt(3)] }

\* clientWidth of the preview container (w-full, max-w-[400px]).
UiContainerSizes == {300, 400}

RATIOS == {"original", "1:1", "4:3", "3:4", "16:9", "9:16"}

\* A StitchItem as an editor leaves it: the image behind item.url, the ratio
\* of its slot, zoom and pan (pan in percent of the image's rendered size).
Item(img, ratio, scale, x, y) ==
  [img |-> img, ratio |-> ratio, scale |-> scale, x |-> x, y |-> y]

ItemPool ==
  { Item(Img2000x3000, "original", RInt(1),   RInt(0),   RInt(0)),
    Item(Img3000x2000, "1:1",      RInt(2),   RInt(10),  RInt(-20)),
    Item(Img500x500,   "16:9",     Rat(1, 2), RInt(-25), RInt(0)),
    Item(Img7200x4800, "9:16",     Rat(3, 2), RInt(0),   RInt(15)),
    Item(Img2000x3000, "4:3",      RInt(1),   RInt(5),   RInt(5)),
    Item(Img3000x2000, "3:4",      RInt(3),   RInt(0),   RInt(0)),
    Item(Img7200x4800, "original", Rat(4, 5), RInt(-10), RInt(10)) }

\* The longest list of items a run stitches.
MaxItems == 2

\* The lists of 1..MaxItems items, each with its id (here: its position when
\* it was added).
ItemLists ==
  UNION { { [i \in 1..n |-> [id |-> i] @@ f[i]] : f \in [1..n -> ItemPool] }
          : n \in 1..MaxItems }

Configs ==
  { [outerPadding |-> p, innerSpacing |-> g, backgroundColor |-> "#ffffff"]
      : p \in {0, 18}, g \in {0, 10} }

(***************************************************************************)
(* State.                                                                  *)
(***************************************************************************)
VARIABLES
  activeTab,        \* App: the feature on screen
  \* generateNineGrid(imageUrl, crop, uiContainerSize)
  gridPc,           \* where the call stands
  gridImg,          \* intrinsic size of the image behind imageUrl
  crop,
  uiContainerSize,
  outputSize,
  drawWidth,
  drawHeight,
  gridDrawn,        \* the rectangle the image covers on the composite
  partSize,
  row,
  col,
  slices,           \* the tiles pushed so far
  \* generateStitchedImage(items, config, outputWidth)
  stitchPc,         \* where the call stands
  stitchError,      \* the value the call's promise is rejected with
  items,
  config,
  outputWidth,
  loads,            \* per item, the state of its loadImage promise
  arrived,          \* the items whose load has resolved, in the order they did
  contentWidth,
  drawData,
  totalHeight,
  finalScale,
  canvas,           \* physical size of the surface
  background,       \* the rectangle filled with backgroundColor before the items
  currentY,
  drawn,            \* per item drawn so far: its slot and where the image lies
  \* the item editors (LongImageStitcher, StoryEditor), which edit items
  selectedId,
  isPanning,        \* LongImageStitcher
  panStartRef,      \* LongImageStitcher: initialItemX, initialItemY
  itemPointers,     \* StoryEditor: per item, the number of pointers down on it
  itemPinchStart,   \* StoryEditor: per item, the pinch's last distance (0: none)
  imageAspects,     \* StoryEditor: the items whose aspect has been pre-loaded
  lastVibrateTime,  \* StoryEditor: Date.now() of the last feedback pulse
  now,              \* Date.now() of the latest applyZoom call
  zoomCall,         \* the applyZoom call of the latest event, if it made one
  edits,            \* number of editor events so far
  reorderState,     \* the item being dragged by its handle (activeId, or NoId)
  rendered,         \* the items of the last render: what the handlers of the
                    \* rendered elements and the effects of that render hold
                    \* (the item of a pointer handler, localItemsRef.current,
                    \* the items of LongImageStitcher's reorder listener)
  reorderStep,      \* the reorder step of the latest event, if it made one
  panTrace,         \* the one-pointer drag under way: its item, the item's pan
                    \* at pointer-down, the pointer's displacement since
  \* the crop editors (NineGridSlicer, MomentsStitcher), which edit crop
  isDragging,
  dragStart,
  activePointers,   \* the number of pointers down on the container
  initialPinchDist, \* the pinch's last distance (0: null)
  cropEvent,        \* the kind of the latest event of a crop editor
  heldSincePinch,   \* history: a pinch has ended with a pointer down and
                    \* some pointer has been down ever since
  \* the export handlers (NineGridSlicer.handleGenerate,
  \* LongImageStitcher.handleDownload)
  loading,          \* NineGridSlicer: the busy flag
  isGenerating,     \* LongImageStitcher: the busy flag
  preflight,        \* handleDownload: per item, the load that measures it
  exports           \* how many exports were started, succeeded, failed

gridIn == <<gridImg, crop, uiContainerSize>>

gridWork == <<outputSize, drawWidth, drawHeight, gridDrawn, partSize>>

gridLoop == <<row, col, slices>>

gridVars == <<gridPc, gridIn, gridWork, gridLoop>>

stitchIn == <<items, config>>

stitchWork == <<contentWidth, drawData, totalHeight, finalScale, canvas,
                background>>

stitchVars == <<stitchPc, stitchError, stitchIn, outputWidth, loads, arrived,
                stitchWork, currentY, drawn>>

storyRefs == <<itemPinchStart, lastVibrateTime, now, zoomCall>>

dragRefs == <<reorderState, rendered, reorderStep, panTrace>>

editVars == <<selectedId, isPanning, panStartRef, itemPointers, imageAspects,
              storyRefs, edits, dragRefs>>

cropRefs == <<isDragging, dragStart, activePointers, initialPinchDist, cropEvent,
              heldSincePinch>>

exportVars == <<loading, isGenerating, preflight, exports>>

vars == <<activeTab, gridVars, stitchVars, editVars, cropRefs, exportVars>>

(***************************************************************************)
(* Feature 1: generateNineGrid.                                            *)
(***************************************************************************)
MinOutputSize == 1080

Max(a, b) == IF a > b THEN a ELSE b

Min(a, b) == IF a < b THEN a ELSE b

\* A plausible slip: the larger dimension instead of the smaller one.
OutputSizeOfLargerDimension(w, h) == Max(MinOutputSize, Max(w, h))

\* sourceMinDimension, outputSize
OutputSize(w, h) == Max(MinOutputSize, Min(w, h))

\* A plausible slip: the comparison of the cover fit turned round (a contain fit).
GridContainFit(w, h, size) ==
  IF ~RGt(Rat(w, h), RInt(1))
    THEN [w |-> RMul(RInt(size), Rat(w, h)), h |-> RInt(size)]
    ELSE [w |-> RInt(size), h |-> RDiv(RInt(size), Rat(w, h))]

\* drawWidth, drawHeight: CSS "object-fit: cover" against the square surface.
GridCoverFit(w, h, size) ==
  IF RGt(Rat(w, h), RInt(1))
    THEN [w |-> RMul(RInt(size), Rat(w, h)), h |-> RInt(size)]
    ELSE [w |-> RInt(size), h |-> RDiv(RInt(size), Rat(w, h))]

\* K: preview pixels to output pixels.
GridK(size, ui) == Rat(size, ui)

\* A plausible slip: the zoom applied before the pan.
GridTransformScaleFirst(size, c, ui) ==
  CtxTranslate(
    CtxScale(
      CtxTranslate(CtxIdentity, RHalf(RInt(size)), RHalf(RInt(size))),
      c.scale),
    RMul(c.x, GridK(size, ui)), RMul(c.y, GridK(size, ui)))

\* ctx.translate(outputSize/2, outputSize/2); ctx.translate(moveX, moveY);
\* ctx.scale(crop.scale, crop.scale)
GridTransform(size, c, ui) ==
  CtxScale(
    CtxTranslate(
      CtxTranslate(CtxIdentity, RHalf(RInt(size)), RHalf(RInt(size))),
      RMul(c.x, GridK(size, ui)), RMul(c.y, GridK(size, ui))),
    c.scale)

\* One tile: the region of the composite that pCtx.drawImage copies, and the
\* size of the tile's own surface (a canvas dimension is an integer).
Tile(r, c, part) ==
  [sx |-> RMul(RInt(c), part), sy |-> RMul(RInt(r), part),
   sw |-> part, sh |-> part,
   width |-> RFloor(part), height |-> RFloor(part)]

GridIdle ==
  /\ gridPc = "idle"
  /\ outputSize = 0
  /\ drawWidth = RInt(0)
  /\ drawHeight = RInt(0)
  /\ gridDrawn = NoRect
  /\ partSize = RInt(0)
  /\ row = 0
  /\ col = 0
  /\ slices = <<>>

InitGrid ==
  /\ activeTab = "grid"
  /\ gridImg \in GridImages
  /\ crop \in Crops
  /\ uiContainerSize \in UiContainerSizes
  /\ GridIdle

\* const img = await loadImage(imageUrl): the call is suspended.
GenerateNineGrid ==
  /\ activeTab = "grid"
  /\ gridPc = "idle"
  /\ gridPc' = "loading"
  /\ UNCHANGED <<activeTab, exportVars, cropRefs, editVars, gridIn, gridWork, gridLoop, stitchVars>>

\* img.onerror: the promise rejects and the call fails.
GridLoadError ==
  /\ gridPc = "loading"
  /\ gridPc' = "failedDecode"
  /\ UNCHANGED <<activeTab, exportVars, cropRefs, editVars, gridIn, gridWork, gridLoop, stitchVars>>

\* img.onload, then canvas.getContext('2d') returns null: throw.
GridNoContext ==
  /\ gridPc = "loading"
  /\ gridPc' = "failedContext"
  /\ UNCHANGED <<activeTab, exportVars, cropRefs, editVars, gridIn, gridWork, gridLoop, stitchVars>>

\* img.onload with a context: the composite is sized, filled and drawn.
GridCompose ==
  /\ gridPc = "loading"
  /\ LET size == OutputSize(gridImg[1], gridImg[2])
         fit  == GridCoverFit(gridImg[1], gridImg[2], size)
         m    == GridTransform(size, crop, uiContainerSize)
     IN  /\ outputSize' = size
         /\ drawWidth' = fit.w
         /\ drawHeight' = fit.h
         /\ gridDrawn' = DrawImage(m, RNeg(RHalf(fit.w)), RNeg(RHalf(fit.h)),
                                   fit.w, fit.h)
         /\ partSize' = Rat(size, 3)
  /\ row' = 0
  /\ col' = 0
  /\ slices' = <<>>
  /\ gridPc' = "slicing"
  /\ UNCHANGED <<activeTab, exportVars, cropRefs, editVars, gridIn, stitchVars>>

\* One pass of the inner loop body; hasContext is what pCanvas.getContext
\* returned.
GridSlice(hasContext) ==
  /\ gridPc = "slicing"
  /\ row < 3
  /\ slices' = IF hasContext
                 THEN Append(slices, Tile(row, col, partSize))
                 ELSE slices
  /\ col' = IF col = 2 THEN 0 ELSE col + 1
  /\ row' = IF col = 2 THEN row + 1 ELSE row
  /\ UNCHANGED <<activeTab, exportVars, cropRefs, editVars, gridPc, gridIn, gridWork, stitchVars>>

GridSliceTile == GridSlice(TRUE)

\* if (!pCtx) continue;
GridSliceSkip == GridSlice(FALSE)

\* return slices;
GridReturn ==
  /\ gridPc = "slicing"
  /\ row = 3
  /\ gridPc' = "done"
  /\ UNCHANGED <<activeTab, exportVars, cropRefs, editVars, gridIn, gridWork, gridLoop, stitchVars>>

NextGrid ==
  \/ GenerateNineGrid
  \/ GridLoadError
  \/ GridNoContext
  \/ GridCompose
  \/ GridSliceTile
  \/ GridSliceSkip
  \/ GridReturn

(***************************************************************************)
(* Feature 2: generateStitchedImage.                                       *)
(***************************************************************************)
DefaultOutputWidth == 1080

MinStitchWidth == 1080

MaxStitchWidth == 8192

MAX_AREA == 50000000

RECURSIVE MaxNaturalWidth(_, _)
MaxNaturalWidth(its, k) ==
  IF k = 0 THEN 0 ELSE Max(MaxNaturalWidth(its, k - 1), its[k].img[1])

\* handleDownload: maxWidth, optimalWidth
OptimalWidth(its) ==
  Min(Max(MaxNaturalWidth(its, Len(its)), MinStitchWidth), MaxStitchWidth)

\* item.ratio.split(':').map(Number)
RatioWH(r) ==
  CASE r = "1:1"  -> <<1, 1>>
    [] r = "4:3"  -> <<4, 3>>
    [] r = "3:4"  -> <<3, 4>>
    [] r = "16:9" -> <<16, 9>>
    [] r = "9:16" -> <<9, 16>>

\* A plausible slip: height over width.
ImgAspectInverted(img) == Rat(img[2], img[1])

\* imgAspect = img.naturalWidth / img.naturalHeight
ImgAspect(img) == Rat(img[1], img[2])

\* slotHeight of an item whose loaded image is img
SlotHeight(item, img, cw) ==
  IF item.ratio = "original"
    THEN RDiv(cw, ImgAspect(img))
    ELSE RDiv(cw, Rat(RatioWH(item.ratio)[1], RatioWH(item.ratio)[2]))

\* A plausible slip: the index compared with the last index, counted from 0,
\* in a list counted from 1.
SpacingOffByOne(index, n, cfg) ==
  IF index < n - 1 THEN RInt(cfg.innerSpacing) ELSE RInt(0)

\* spacing (index counts from 1 here)
Spacing(index, n, cfg) == IF index < n THEN RInt(cfg.innerSpacing) ELSE RInt(0)

\* A plausible slip: the images collected in the order their loads resolve.
ValuesAsArrived(its, arr) == [k \in 1..Len(arr) |-> its[arr[k]].img]

\* loadedImages, the value Promise.all fulfils with: the value of the i-th
\* promise at index i, in whatever order arr the promises resolved.
LoadedImages(its, arr) == [i \in 1..Len(its) |-> its[i].img]

\* drawData = items.map((item, index) => ... loadedImages[index] ...)
DrawData(its, loadedImages, cfg, cw) ==
  [i \in 1..Len(its) |->
     [img |-> loadedImages[i],
      slotHeight |-> SlotHeight(its[i], loadedImages[i], cw),
      item |-> its[i], spacing |-> Spacing(i, Len(its), cfg)]]

\* drawData.reduce((acc, d) => acc + d.slotHeight + d.spacing, 0)
RECURSIVE ReduceHeights(_, _)
ReduceHeights(dd, k) ==
  IF k = 0 THEN RInt(0)
  ELSE RAdd(RAdd(ReduceHeights(dd, k - 1), dd[k].slotHeight), dd[k].spacing)

\* A plausible slip: the outer padding counted once.
TotalHeightOnePadding(dd, cfg) ==
  LET totalContentHeight == ReduceHeights(dd, Len(dd))
      finalSpacing == IF Len(dd) > 0 THEN dd[Len(dd)].spacing ELSE RInt(0)
  IN  RAdd(RSub(totalContentHeight, finalSpacing), RInt(cfg.outerPadding))

\* totalContentHeight, finalSpacing, totalHeight
TotalHeight(dd, cfg) ==
  LET totalContentHeight == ReduceHeights(dd, Len(dd))
      finalSpacing == IF Len(dd) > 0 THEN dd[Len(dd)].spacing ELSE RInt(0)
  IN  RAdd(RSub(totalContentHeight, finalSpacing), RInt(cfg.outerPadding * 2))

\* finalScale is 1.0 or a square root: [num, den] stands for sqrt(num / den),
\* num an integer and den a rational.
ScaleOne == [num |-> 1, den |-> RInt(1)]

\* A plausible slip: the height, not the area, compared with MAX_AREA.
FinalScaleByHeight(ow, th) ==
  IF RGt(th, RInt(MAX_AREA))
    THEN [num |-> MAX_AREA, den |-> RMul(RInt(ow), th)]
    ELSE ScaleOne

\* currentArea, finalScale
FinalScale(ow, th) ==
  LET currentArea == RMul(RInt(ow), th)
  IN  IF RGt(currentArea, RInt(MAX_AREA))
        THEN [num |-> MAX_AREA, den |-> currentArea]
        ELSE ScaleOne

\* floor(a * b / c) for naturals a, b and c > 0, computed in parts (b split at
\* 10000) so that no intermediate value exceeds 10000 * c or the result.
MulDiv(a, b, c) ==
  LET ra == a % c
      p  == ra * (b \div 10000)
  IN  (a \div c) * b + (p \div c) * 10000
        + ((p % c) * 10000 + ra * (b % 10000)) \div c

\* Math.floor(logical * finalScale) for a rational logical > 0:
\* floor(logical * sqrt(num / den)) = floor(sqrt(floor(num * r))) with
\* r = logical / (den / logical).
PhysicalSize(logical, fs) ==
  IF fs = ScaleOne
    THEN RFloor(logical)
    ELSE LET r == RDiv(logical, RDiv(fs.den, logical))
         IN  ISqrt(MulDiv(r[1], fs.num, r[2]))

\* A plausible slip: the comparison of the cover fit turned round (a contain fit).
StitchContainFit(img, cw, sh) ==
  IF ~RGt(ImgAspect(img), RDiv(cw, sh))
    THEN [w |-> RMul(sh, ImgAspect(img)), h |-> sh]
    ELSE [w |-> cw, h |-> RDiv(cw, ImgAspect(img))]

\* slotAspect, imgAspect, drawW, drawH
StitchCoverFit(img, cw, sh) ==
  IF RGt(ImgAspect(img), RDiv(cw, sh))
    THEN [w |-> RMul(sh, ImgAspect(img)), h |-> sh]
    ELSE [w |-> cw, h |-> RDiv(cw, ImgAspect(img))]

\* item.scale || 1
ScaleOrOne(sc) == IF sc = RInt(0) THEN RInt(1) ELSE sc

\* moveX, moveY
StitchMove(item, fit) ==
  [x |-> RMul(RDiv(item.x, RInt(100)), fit.w),
   y |-> RMul(RDiv(item.y, RInt(100)), fit.h)]

\* The order section 4.3 of the specification describes: centre, pan, scale.
StitchTransformPanFirst(cx, cy, item, fit) ==
  CtxScale(
    CtxTranslate(CtxTranslate(CtxIdentity, cx, cy),
                 StitchMove(item, fit).x, StitchMove(item, fit).y),
    ScaleOrOne(item.scale))

\* ctx.translate(centerX, centerY); ctx.scale(scale, scale);
\* ctx.translate(moveX, moveY) -- in the logical coordinates the code draws
\* in; the surface's base transform scale(finalScale) shrinks all of them
\* alike.
StitchTransform(cx, cy, item, fit) ==
  CtxTranslate(
    CtxScale(CtxTranslate(CtxIdentity, cx, cy), ScaleOrOne(item.scale)),
    StitchMove(item, fit).x, StitchMove(item, fit).y)

NoCanvas == [width |-> 0, height |-> 0]

\* Nothing filled yet.
NoFill == [x |-> RInt(0), y |-> RInt(0), w |-> RInt(0), h |-> RInt(0)]

\* A plausible slip: the image drawn with no clipping region set.
Unclipped(clip, r) == [x |-> r.x, y |-> r.y, w |-> r.w, h |-> r.h]

\* What a fill or drawImage of rectangle r paints while the clipping region
\* is the rectangle clip (ctx.rect(...); ctx.clip()): their intersection.
ClipRect(clip, r) ==
  LET x1 == RMax(clip.x, r.x)
      y1 == RMax(clip.y, r.y)
      x2 == RMin(RAdd(clip.x, clip.w), RAdd(r.x, r.w))
      y2 == RMin(RAdd(clip.y, clip.h), RAdd(r.y, r.h))
  IN  IF RLt(x1, x2) /\ RLt(y1, y2)
        THEN [x |-> x1, y |-> y1, w |-> RSub(x2, x1), h |-> RSub(y2, y1)]
        ELSE [x |-> x1, y |-> y1, w |-> RInt(0), h |-> RInt(0)]

\* A plausible slip: Promise.allSettled, which waits for every load and never
\* rejects.
PromiseAllSettled(l) ==
  IF \A i \in DOMAIN l : l[i] # "pending" THEN "fulfilled" ELSE "pending"

\* Promise.all(items.map(item => loadImage(item.url))): rejected as soon as
\* one load is, fulfilled once every load is.
PromiseAll(l) ==
  IF \E i \in DOMAIN l : l[i] = "error" THEN "rejected"
  ELSE IF \A i \in DOMAIN l : l[i] = "loaded" THEN "fulfilled"
  ELSE "pending"

\* What a promise of the call can be rejected with: the error Event that
\* img.onerror hands to reject (loadImage), or an Error with its message.
NoError == [kind |-> "none", text |-> "", target |-> 0]

ErrorEvent(i) == [kind |-> "Event", text |-> "error", target |-> i]

Error(message) == [kind |-> "Error", text |-> message, target |-> 0]

ContextError == Error("Canvas context failed")

\* A plausible slip: the empty blob reported with the message of the missing
\* drawing context.
EmptyBlobAsContextError == Error("Canvas context failed")

EmptyBlobError == Error("Canvas export failed (empty blob)")

\* The call has been rejected.
StitchFailed == stitchPc \in {"failedDecode", "failedContext", "failedEncode"}

StitchIdle ==
  /\ stitchPc = "idle"
  /\ stitchError = NoError
  /\ outputWidth = 0
  /\ loads = <<>>
  /\ arrived = <<>>
  /\ contentWidth = RInt(0)
  /\ drawData = <<>>
  /\ totalHeight = RInt(0)
  /\ finalScale = ScaleOne
  /\ canvas = NoCanvas
  /\ background = NoFill
  /\ currentY = RInt(0)
  /\ drawn = <<>>

InitStitch ==
  /\ activeTab = "stitch"
  /\ items \in ItemLists
  /\ config \in Configs
  /\ StitchIdle

\* The call: every item's loadImage is started and Promise.all awaited.
GenerateStitchedImage ==
  /\ activeTab = "stitch"
  /\ stitchPc = "idle"
  /\ Len(items) > 0
  /\ \E ow \in {DefaultOutputWidth, OptimalWidth(items)} : outputWidth' = ow
  /\ loads' = [i \in 1..Len(items) |-> "pending"]
  /\ arrived' = <<>>
  /\ stitchPc' = "loading"
  /\ stitchError' = NoError
  /\ UNCHANGED <<activeTab, exportVars, cropRefs, editVars, gridVars, stitchIn, stitchWork, currentY, drawn>>

\* img.onload of item i: its promise resolves.
StitchLoadOk(i) ==
  /\ stitchPc \in {"loading", "failedDecode"}
  /\ loads[i] = "pending"
  /\ loads' = [loads EXCEPT ![i] = "loaded"]
  /\ arrived' = Append(arrived, i)
  /\ UNCHANGED <<activeTab, exportVars, cropRefs, editVars, gridVars, stitchPc, stitchError, stitchIn,
                 outputWidth, stitchWork, currentY, drawn>>

\* img.onerror of item i: its promise rejects, and Promise.all with it.
StitchLoadError(i) ==
  /\ stitchPc \in {"loading", "failedDecode"}
  /\ loads[i] = "pending"
  /\ loads' = [loads EXCEPT ![i] = "error"]
  /\ stitchPc' = IF PromiseAll(loads') = "rejected" THEN "failedDecode"
                 ELSE stitchPc
  /\ stitchError' = IF stitchPc = "loading" THEN ErrorEvent(i) ELSE stitchError
  /\ UNCHANGED <<activeTab, exportVars, cropRefs, editVars, gridVars, stitchIn, outputWidth, arrived,
                 stitchWork, currentY, drawn>>

\* Promise.all fulfils: the layout, the safety downscale, the surface; with a
\* context the background is filled, without one the call throws.
StitchLayout(hasContext) ==
  /\ stitchPc = "loading"
  /\ PromiseAll(loads) = "fulfilled"
  /\ LET cw == RInt(outputWidth - config.outerPadding * 2)
         dd == DrawData(items, LoadedImages(items, arrived), config, cw)
         th == TotalHeight(dd, config)
         fs == FinalScale(outputWidth, th)
     IN  /\ contentWidth' = cw
         /\ drawData' = dd
         /\ totalHeight' = th
         /\ finalScale' = fs
         /\ canvas' = [width  |-> PhysicalSize(RInt(outputWidth), fs),
                       height |-> PhysicalSize(th, fs)]
         /\ background' = IF hasContext
                            THEN [x |-> RInt(0), y |-> RInt(0),
                                  w |-> RInt(outputWidth), h |-> th]
                            ELSE NoFill
  /\ currentY' = RInt(config.outerPadding)
  /\ stitchPc' = IF hasContext THEN "drawing" ELSE "failedContext"
  /\ stitchError' = IF hasContext THEN NoError ELSE ContextError
  /\ UNCHANGED <<activeTab, exportVars, cropRefs, editVars, gridVars, stitchIn, outputWidth, loads,
                 arrived, drawn>>

StitchLayoutDone == StitchLayout(TRUE)

StitchNoContext == StitchLayout(FALSE)

\* One pass of drawData.forEach: clip to the slot, fill it, draw the image.
StitchDrawItem ==
  /\ stitchPc = "drawing"
  /\ Len(drawn) < Len(drawData)
  /\ LET d    == drawData[Len(drawn) + 1]
         slot == [x |-> RInt(config.outerPadding), y |-> currentY,
                  w |-> contentWidth, h |-> d.slotHeight]
         fit  == StitchCoverFit(d.img, contentWidth, d.slotHeight)
         m    == StitchTransform(RAdd(slot.x, RHalf(slot.w)),
                                 RAdd(slot.y, RHalf(slot.h)), d.item, fit)
         rect == DrawImage(m, RNeg(RHalf(fit.w)), RNeg(RHalf(fit.h)),
                           fit.w, fit.h)
     IN  /\ drawn' = Append(drawn,
                      [id |-> d.item.id, img |-> d.img, slot |-> slot,
                       drawW |-> fit.w, drawH |-> fit.h,
                       rect |-> rect,
                       filled |-> ClipRect(slot, slot),
                       painted |-> ClipRect(slot, rect)])
         /\ currentY' = RAdd(currentY, RAdd(d.slotHeight, d.spacing))
  /\ UNCHANGED <<activeTab, exportVars, cropRefs, editVars, gridVars, stitchPc, stitchError, stitchIn,
                 outputWidth, loads, arrived, stitchWork>>

\* canvas.toBlob: a blob resolves the call, none rejects it.
StitchEncode(hasBlob) ==
  /\ stitchPc = "drawing"
  /\ Len(drawn) = Len(drawData)
  /\ stitchPc' = IF hasBlob THEN "done" ELSE "failedEncode"
  /\ stitchError' = IF hasBlob THEN NoError ELSE EmptyBlobError
  /\ UNCHANGED <<activeTab, exportVars, cropRefs, editVars, gridVars, stitchIn, outputWidth, loads,
                 arrived, stitchWork, currentY, drawn>>

StitchEncoded == StitchEncode(TRUE)

StitchEmptyBlob == StitchEncode(FALSE)

NextStitch ==
  \/ GenerateStitchedImage
  \/ \E i \in DOMAIN loads : StitchLoadOk(i)
  \/ \E i \in DOMAIN loads : StitchLoadError(i)
  \/ StitchLayoutDone
  \/ StitchNoContext
  \/ StitchDrawItem
  \/ StitchEncoded
  \/ StitchEmptyBlob

(***************************************************************************)
(* The on-screen previews.  A CSS transform list is applied about the      *)
(* element's transform-origin, the centre of its layout box, and composes  *)
(* left to right as the calls on a drawing context do; a percentage in     *)
(* translate() is a fraction of the element's own box.                     *)
(***************************************************************************)
\* The w x h element's box on screen under the transform m, built on the
\* context moved to the transform-origin.
CssBox(w, h, m) ==
  DrawImage(m, RNeg(RHalf(w)), RNeg(RHalf(h)), w, h)

CssOrigin(left, top, w, h) ==
  CtxTranslate(CtxIdentity, RAdd(left, RHalf(w)), RAdd(top, RHalf(h)))

\* NineGridSlicer: the img at left: 50%, top: 50% of the square container,
\* height 100% (landscape) or width 100%, under combinedTransform.  The
\* result: the container (region) and the image's box on screen (rect).
GridPreview(img, c, ui) ==
  LET size == RInt(ui)
      isLandscape == RGt(ImgAspect(img), RInt(1))
      w == IF isLandscape THEN RMul(size, ImgAspect(img)) ELSE size
      h == IF isLandscape THEN size ELSE RDiv(size, ImgAspect(img))
      m == CtxScale(
             CtxTranslate(
               CtxTranslate(CssOrigin(RHalf(size), RHalf(size), w, h),
                            RNeg(RHalf(w)), RNeg(RHalf(h))),
               c.x, c.y),
             c.scale)
  IN  [region |-> [w |-> size, h |-> size,
                   cx |-> RHalf(size), cy |-> RHalf(size)],
       rect |-> CssBox(w, h, m)]

\* maxWidth of the preview's canvas
PreviewMaxWidth == 500

\* LongImageStitcher, an item of ratio 'original': the img (width: 100%,
\* height: auto) fills its wrapper, the slot, under
\* scale(item.scale) translate(item.x%, item.y%).
StitchPreview(item, cfg) ==
  LET w == RInt(PreviewMaxWidth - 2 * cfg.outerPadding)
      h == RDiv(w, ImgAspect(item.img))
      m == CtxTranslate(
             CtxScale(CssOrigin(RInt(0), RInt(0), w, h), item.scale),
             RMul(RDiv(item.x, RInt(100)), w),
             RMul(RDiv(item.y, RInt(100)), h))
  IN  [region |-> [w |-> w, h |-> h, cx |-> RHalf(w), cy |-> RHalf(h)],
       rect |-> CssBox(w, h, m)]

(***************************************************************************)
(* The export pipelines, one feature on screen at a time.                  *)
(***************************************************************************)
NoItems == <<>>

DefaultConfig ==
  [outerPadding |-> 0, innerSpacing |-> 0, backgroundColor |-> "#ffffff"]

DefaultCrop == [x |-> RInt(0), y |-> RInt(0), scale |-> RInt(1)]

(***************************************************************************)
(* The item editors: LongImageStitcher ("stitch") and StoryEditor          *)
(* ("moments").  Both edit the list that generateStitchedImage is given.   *)
(***************************************************************************)
\* selectedId = null
NoId == -1

\* The anchor item of story 0 ('anchor-0'): a tile of the nine-grid.
AnchorId == 0

Img360x360 == <<360, 360>>

AnchorItem ==
  [id |-> AnchorId] @@ Item(Img360x360, "1:1", RInt(1), RInt(0), RInt(0))

\* The most items an editor holds besides the anchor, and their ids.
MaxEditItems == 2

EditIds == 1..MaxEditItems

\* The ids of a story's items: the anchor's and the added items'.
StoryIds == EditIds \cup {AnchorId}

\* The most editor events of one run.
MaxEdits == 3

EditImages == {Img2000x3000, Img3000x2000}

\* Pointer movement (clientX, clientY deltas) and wheel deltaY of one event.
PanDeltas == {<<50, -50>>, <<-100, 0>>}

WheelDeltaYs == {-1000, 600}

\* Wheel deltaY of one event over a story item: up to either limit of the
\* scale, near a snap point, and no vertical movement at all.
StoryWheelDeltaYs == {-5000, -300, 0, 30, 300, 2000}

\* Distance between the two pointers of a pinch, in CSS pixels.
PinchDists == {100, 160}

\* The most pointers down on one item.
MaxPointers == 2

\* Date.now() when the StoryEditor mounts, in milliseconds from an origin at
\* which lastVibrateTime's initial 0 lies; the milliseconds between one
\* applyZoom call and the next.
MountTime == 1000

Elapsed == {100, 150, 200}

\* The times taken for the next call: until a first pulse has been emitted
\* the time of a call has no effect on it, and one value stands for all.
ElapsedAfter(last) == IF last = 0 THEN {100} ELSE Elapsed

\* zoomCall of an event that calls no applyZoom.
NoCall == [id |-> NoId]

\* reorderStep of an event that moves no item.
NoStep == [activeId |-> NoId]

\* panTrace while no one-pointer drag is under way.
NoTrace == [id |-> NoId]

Img1050x1000 == <<1050, 1000>>

Img6000x100 == <<6000, 100>>

\* The items besides the anchor of a story that has been edited before.
StoryPool ==
  { Item(Img3000x2000, "1:1",  RInt(1), RInt(10), RInt(-20)),
    Item(Img1050x1000, "1:1",  RInt(1), RInt(0),  RInt(0)),
    Item(Img6000x100,  "9:16", Rat(9, 10), RInt(0), RInt(0)) }

\* A story of three items and a stitch of two, as a user left them.
StoryOfThree ==
  <<AnchorItem,
    [id |-> 1] @@ Item(Img3000x2000, "1:1", RInt(1), RInt(10), RInt(-20)),
    [id |-> 2] @@ Item(Img2000x3000, "original", RInt(1), RInt(0), RInt(0))>>

StitchOfTwo ==
  <<[id |-> 1] @@ Item(Img3000x2000, "1:1", RInt(2), RInt(10), RInt(-20)),
    [id |-> 2] @@ Item(Img2000x3000, "original", RInt(1), RInt(0), RInt(0))>>

\* The item literal of processFiles / addFiles.
NewItem(id, img) ==
  [id |-> id] @@ Item(img, "original", RInt(1), RInt(0), RInt(0))

ItemIds(its) == {its[k].id : k \in DOMAIN its}

ItemById(its, id) == its[CHOOSE k \in DOMAIN its : its[k].id = id]

\* prev.map(item => item.id === targetId ? { ...item, ...updates } : item)
UpdateItem(its, id, updates) ==
  [k \in DOMAIN its |-> IF its[k].id = id THEN updates @@ its[k] ELSE its[k]]

\* prev.filter(item => item.id !== id)
FilterOut(its, id) == SelectSeq(its, LAMBDA it : it.id # id)

RAbs(p) == IF p[1] < 0 THEN RNeg(p) ELSE p

\* Math.min(Math.max(lo, v), hi)
Clamp(v, lo, hi) == RMin(RMax(lo, v), hi)

EditIdle ==
  /\ selectedId = NoId
  /\ isPanning = FALSE
  /\ panStartRef = [initialItemX |-> RInt(0), initialItemY |-> RInt(0)]
  /\ itemPointers = [id \in StoryIds |-> 0]
  /\ itemPinchStart = [id \in StoryIds |-> 0]
  /\ imageAspects = {}
  /\ lastVibrateTime = 0
  /\ now = MountTime
  /\ zoomCall = NoCall
  /\ edits = 0
  /\ reorderState = NoId
  /\ reorderStep = NoStep
  /\ panTrace = NoTrace

\* One more editor event.
Edit ==
  /\ edits < MaxEdits
  /\ edits' = edits + 1

\* The event is no step of a drag, and the component has re-rendered and
\* run its effects before the next event: its handlers and refs hold the
\* new items.
Flushed ==
  /\ rendered' = items'
  /\ reorderStep' = NoStep
  /\ panTrace' = NoTrace

\* Flushed, by an event that neither starts nor ends a reorder.
Settled ==
  /\ Flushed
  /\ UNCHANGED reorderState

\* const [movedItem] = newItems.splice(draggingIndex, 1);
\* newItems.splice(targetIndex, 0, movedItem)
\* on a copy of list; the indices count from 1 here.
ReorderSplice(list, draggingIndex, targetIndex) ==
  LET rest == [k \in 1..(Len(list) - 1) |->
                 IF k < draggingIndex THEN list[k] ELSE list[k + 1]]
      at   == Min(targetIndex, Len(rest) + 1)
  IN  SubSeq(rest, 1, at - 1) \o <<list[draggingIndex]>>
        \o SubSeq(rest, at, Len(rest))

\* The index of the item with this id.
IndexOf(list, id) == CHOOSE k \in DOMAIN list : list[k].id = id

pipelineVars == <<gridVars, stitchPc, stitchError, config, outputWidth, loads, arrived, stitchWork,
                  currentY, drawn>>

(***************************************************************************)
(* LongImageStitcher.                                                      *)
(***************************************************************************)
MIN_SCALE == Rat(1, 5)

MAX_SCALE == RInt(3)

ZOOM_SENSITIVITY == Rat(1, 1000)

SENSITIVITY == Rat(1, 5)

\* processFiles with one file; with nothing selected the new item is selected.
ProcessFiles(id, img) ==
  /\ activeTab = "stitch" /\ Edit
  /\ id \notin ItemIds(items)
  /\ items' = Append(items, NewItem(id, img))
  /\ selectedId' = IF selectedId = NoId THEN id ELSE selectedId
  /\ UNCHANGED <<activeTab, exportVars, cropRefs, pipelineVars, isPanning, panStartRef, itemPointers,
                 imageAspects, storyRefs>>
  /\ Settled

RemoveItem(id) ==
  /\ activeTab = "stitch" /\ Edit
  /\ reorderState = NoId
  /\ id \in ItemIds(items)
  /\ items' = FilterOut(items, id)
  /\ selectedId' = IF selectedId = id THEN NoId ELSE selectedId
  /\ UNCHANGED <<activeTab, exportVars, cropRefs, pipelineVars, isPanning, panStartRef, itemPointers,
                 imageAspects, storyRefs>>
  /\ Settled

\* onClick of the background: setSelectedId(null)
Deselect ==
  /\ activeTab = "stitch" /\ Edit
  /\ selectedId # NoId
  /\ selectedId' = NoId
  /\ UNCHANGED <<activeTab, exportVars, cropRefs, pipelineVars, items, isPanning, panStartRef,
                 itemPointers, imageAspects, storyRefs>>
  /\ Settled

\* handlePanDown with the primary pointer; the pointer's position is the
\* origin that handlePanMove's deltas are measured from.
HandlePanDown(id) ==
  /\ activeTab = "stitch" /\ Edit
  /\ id \in ItemIds(items)
  /\ ~isPanning
  /\ selectedId' = id
  /\ isPanning' = TRUE
  /\ panStartRef' = [initialItemX |-> ItemById(items, id).x,
                     initialItemY |-> ItemById(items, id).y]
  /\ UNCHANGED <<activeTab, exportVars, cropRefs, pipelineVars, items, itemPointers, imageAspects, storyRefs>>
  /\ Settled

HandlePanMove(id, d) ==
  /\ activeTab = "stitch" /\ Edit
  /\ id \in ItemIds(items)
  /\ isPanning /\ selectedId = id
  /\ items' = UpdateItem(items, id,
       [x |-> RAdd(panStartRef.initialItemX, RMul(RInt(d[1]), SENSITIVITY)),
        y |-> RAdd(panStartRef.initialItemY, RMul(RInt(d[2]), SENSITIVITY))])
  /\ UNCHANGED <<activeTab, exportVars, cropRefs, pipelineVars, selectedId, isPanning, panStartRef,
                 itemPointers, imageAspects, storyRefs>>
  /\ Settled

HandlePanUp ==
  /\ activeTab = "stitch" /\ Edit
  /\ isPanning
  /\ isPanning' = FALSE
  /\ UNCHANGED <<activeTab, exportVars, cropRefs, pipelineVars, items, selectedId, panStartRef,
                 itemPointers, imageAspects, storyRefs>>
  /\ Settled

\* handleNativeWheel over the selected item.
HandleNativeWheel(deltaY) ==
  /\ activeTab = "stitch" /\ Edit
  /\ selectedId \in ItemIds(items)
  /\ LET delta == RMul(RInt(-deltaY), ZOOM_SENSITIVITY)
         item  == ItemById(items, selectedId)
     IN  items' = UpdateItem(items, selectedId,
           [scale |-> Clamp(RAdd(item.scale, delta), MIN_SCALE, MAX_SCALE)])
  /\ UNCHANGED <<activeTab, exportVars, cropRefs, pipelineVars, selectedId, isPanning, panStartRef,
                 itemPointers, imageAspects, storyRefs>>
  /\ Settled

\* The ratio select of the selected item's toolbar:
\* updateSelectedItem({ ratio: e.target.value }, item.id)
RatioSelect(id, ratio) ==
  /\ activeTab = "stitch" /\ Edit
  /\ reorderState = NoId
  /\ id \in ItemIds(items) /\ selectedId = id
  /\ ratio # ItemById(items, id).ratio
  /\ items' = UpdateItem(items, id, [ratio |-> ratio])
  /\ UNCHANGED <<activeTab, exportVars, cropRefs, pipelineVars, selectedId, isPanning, panStartRef,
                 itemPointers, imageAspects, storyRefs>>
  /\ Settled

\* updateSelectedItem({ x: 0, y: 0, scale: 1 }, item.id)
ResetTransforms(id) ==
  /\ activeTab = "stitch" /\ Edit
  /\ reorderState = NoId
  /\ id \in ItemIds(items) /\ selectedId = id
  /\ items' = UpdateItem(items, id,
                         [x |-> RInt(0), y |-> RInt(0), scale |-> RInt(1)])
  /\ UNCHANGED <<activeTab, exportVars, cropRefs, pipelineVars, selectedId, isPanning, panStartRef,
                 itemPointers, imageAspects, storyRefs>>
  /\ Settled

\* handleReorderDown on an item's handle.
HandleReorderDown(id) ==
  /\ activeTab = "stitch" /\ Edit
  /\ id \in ItemIds(items)
  /\ reorderState = NoId
  /\ reorderState' = id
  /\ selectedId' = id
  /\ UNCHANGED <<activeTab, exportVars, cropRefs, pipelineVars, items, isPanning, panStartRef,
                 itemPointers, imageAspects, storyRefs>>
  /\ Flushed

\* handleGlobalMove with the pointer over the element of another item, as
\* the last render laid the elements out; items is the list the effect that
\* added the listener closed over.
HandleGlobalMove(targetId) ==
  /\ activeTab = "stitch" /\ Edit
  /\ reorderState \in ItemIds(rendered)
  /\ targetId \in ItemIds(rendered) \ {reorderState}
  /\ LET after == ReorderSplice(rendered, IndexOf(rendered, reorderState),
                                IndexOf(rendered, targetId))
     IN  /\ items' = after
         /\ reorderStep' = [activeId |-> reorderState, targetId |-> targetId,
                            before |-> items, after |-> after,
                            seen |-> rendered]
  /\ panTrace' = NoTrace
  /\ UNCHANGED <<activeTab, exportVars, cropRefs, pipelineVars, selectedId, isPanning, panStartRef,
                 itemPointers, imageAspects, storyRefs, rendered, reorderState>>

\* handleGlobalUp: pointerup or pointercancel on the window.
HandleGlobalUp ==
  /\ activeTab = "stitch" /\ Edit
  /\ reorderState # NoId
  /\ reorderState' = NoId
  /\ UNCHANGED <<activeTab, exportVars, cropRefs, pipelineVars, items, selectedId, isPanning,
                 panStartRef, itemPointers, imageAspects, storyRefs>>
  /\ Flushed

\* The component re-renders with the state the events have left and runs
\* the effects of that render: the handlers are attached anew and
\* localItemsRef.current is the new list.
Render ==
  /\ activeTab \in {"stitch", "moments"}
  /\ rendered # items
  /\ rendered' = items
  /\ UNCHANGED <<activeTab, exportVars, cropRefs, pipelineVars, items, selectedId, isPanning,
                 panStartRef, itemPointers, imageAspects, storyRefs, edits,
                 reorderState, reorderStep, panTrace>>

NextLongImageStitcher ==
  \/ \E id \in EditIds : HandleReorderDown(id)
  \/ \E id \in EditIds : HandleGlobalMove(id)
  \/ HandleGlobalUp
  \/ Render
  \/ \E id \in EditIds, img \in EditImages : ProcessFiles(id, img)
  \/ \E id \in EditIds : RemoveItem(id)
  \/ Deselect
  \/ \E id \in EditIds : HandlePanDown(id)
  \/ \E id \in EditIds, d \in PanDeltas : HandlePanMove(id, d)
  \/ HandlePanUp
  \/ \E deltaY \in WheelDeltaYs : HandleNativeWheel(deltaY)
  \/ \E id \in EditIds, ratio \in RATIOS : RatioSelect(id, ratio)
  \/ \E id \in EditIds : ResetTransforms(id)

(***************************************************************************)
(* StoryEditor.                                                            *)
(***************************************************************************)
STORY_MIN_SCALE == Rat(1, 100)

STORY_MAX_SCALE == RInt(5)

SNAP_THRESHOLD == Rat(1, 20)

\* isSameScale: Math.abs(prevItem.scale - newScale) < 0.0001
SAME_SCALE_EPSILON == Rat(1, 10000)

\* Milliseconds that must have passed since lastVibrateTime.
VIBRATE_DEBOUNCE == 150

\* A plausible slip: no item is taken for the anchor.
NeverAnchor(id) == FALSE

\* isAnchor: item.id === anchorItem?.id
IsAnchor(id) == id = AnchorId

\* An event that calls no applyZoom: the refs applyZoom reads and writes keep
\* their values, and the event has no zoom call to show.
NoZoom ==
  /\ zoomCall' = NoCall
  /\ UNCHANGED <<lastVibrateTime, now>>

\* addFiles with one file that is no duplicate.
AddFiles(id, img, position) ==
  /\ activeTab = "moments" /\ Edit
  /\ id \notin ItemIds(items)
  /\ items' = IF position = "top"
                THEN <<NewItem(id, img)>> \o items
                ELSE Append(items, NewItem(id, img))
  /\ NoZoom
  /\ UNCHANGED <<activeTab, exportVars, cropRefs, pipelineVars, selectedId, isPanning, panStartRef,
                 itemPointers, itemPinchStart, imageAspects>>
  /\ Settled

\* img.onload of the aspect pre-load of one item: a callback of the browser,
\* not an event of the user.  (The anchor's aspect is pre-loaded as well; no
\* handler reads it, since the anchor takes no pointer and is never selected.)
AspectLoaded(id) ==
  /\ activeTab = "moments"
  /\ id \in ItemIds(items) \ imageAspects
  /\ imageAspects' = imageAspects \cup {id}
  /\ NoZoom
  /\ UNCHANGED <<activeTab, exportVars, cropRefs, pipelineVars, items, selectedId, isPanning,
                 panStartRef, itemPointers, itemPinchStart, edits>>
  /\ Settled

StoryRemoveItem(id) ==
  /\ activeTab = "moments" /\ Edit
  /\ reorderState = NoId
  /\ id \in ItemIds(items) /\ selectedId = id
  /\ ~IsAnchor(id)
  /\ items' = FilterOut(items, id)
  /\ selectedId' = NoId
  /\ NoZoom
  /\ UNCHANGED <<activeTab, exportVars, cropRefs, pipelineVars, isPanning, panStartRef, itemPointers,
                 itemPinchStart, imageAspects>>
  /\ Settled

\* onClick of the background: setSelectedId(null)
StoryDeselect ==
  /\ activeTab = "moments" /\ Edit
  /\ selectedId # NoId
  /\ selectedId' = NoId
  /\ NoZoom
  /\ UNCHANGED <<activeTab, exportVars, cropRefs, pipelineVars, items, isPanning, panStartRef,
                 itemPointers, itemPinchStart, imageAspects>>
  /\ Settled

\* The rendered item with this id.
Rendered(id) == ItemById(rendered, id)

\* handlePointerDown of one more pointer on an item; the anchor's element has
\* no pointer handlers.  The second pointer starts a pinch, dist apart from
\* the first.
HandlePointerDown(id, dist) ==
  /\ activeTab = "moments" /\ Edit
  /\ id \in ItemIds(items) /\ ~IsAnchor(id)
  /\ itemPointers[id] < MaxPointers
  /\ selectedId' = IF reorderState = NoId THEN id ELSE selectedId
  /\ itemPointers' = [itemPointers EXCEPT ![id] = @ + 1]
  /\ itemPinchStart' = IF itemPointers'[id] = 2
                         THEN [itemPinchStart EXCEPT ![id] = dist]
                         ELSE itemPinchStart
  /\ NoZoom
  /\ UNCHANGED <<activeTab, exportVars, cropRefs, pipelineVars, items, isPanning, panStartRef,
                 imageAspects, reorderState>>
  /\ rendered' = items'
  /\ reorderStep' = NoStep
  /\ panTrace' = IF itemPointers'[id] = 1
                    THEN [id |-> id, x |-> ItemById(items, id).x,
                          y |-> ItemById(items, id).y, dx |-> 0, dy |-> 0]
                    ELSE NoTrace

\* contain, as applyZoom computes it
Contain(item, aspects) ==
  LET imgAspect  == IF item.id \in aspects THEN ImgAspect(item.img) ELSE RInt(1)
      slotAspect == IF item.ratio = "original" THEN imgAspect
                    ELSE Rat(RatioWH(item.ratio)[1], RatioWH(item.ratio)[2])
  IN  IF RGt(imgAspect, slotAspect)
        THEN RDiv(slotAspect, imgAspect)
        ELSE RDiv(imgAspect, slotAspect)

\* A snap rule without the contain branch.
SnapCoverOnly(c, cover, contain) ==
  IF RLt(RAbs(RSub(c, cover)), SNAP_THRESHOLD)
    THEN [scale |-> cover, didSnap |-> TRUE]
    ELSE [scale |-> c, didSnap |-> FALSE]

\* A snap rule that prefers contain to cover.
SnapContainFirst(c, cover, contain) ==
  IF RLt(RAbs(RSub(c, contain)), SNAP_THRESHOLD)
    THEN [scale |-> contain, didSnap |-> TRUE]
    ELSE IF RLt(RAbs(RSub(c, cover)), SNAP_THRESHOLD)
           THEN [scale |-> cover, didSnap |-> TRUE]
           ELSE [scale |-> c, didSnap |-> FALSE]

\* The snap of applyZoom's updater: newScale and didSnap for the clamped c.
Snap(c, cover, contain) ==
  LET distCover   == RAbs(RSub(c, cover))
      distContain == RAbs(RSub(c, contain))
  IN  IF RLt(distCover, SNAP_THRESHOLD) /\ RLe(distCover, distContain)
        THEN [scale |-> cover, didSnap |-> TRUE]
        ELSE IF RLt(distContain, SNAP_THRESHOLD)
               THEN [scale |-> contain, didSnap |-> TRUE]
               ELSE [scale |-> c, didSnap |-> FALSE]

\* newScale and didSnap of applyZoom's updater for prevItem.
ZoomSnap(prevItem, delta, aspects) ==
  Snap(Clamp(RAdd(prevItem.scale, delta), STORY_MIN_SCALE, STORY_MAX_SCALE),
       RInt(1), Contain(prevItem, aspects))

\* A pan that survives the snap.
PanKept(prevItem, didSnap) == [x |-> prevItem.x, y |-> prevItem.y]

\* newX, newY
PanAfterZoom(prevItem, didSnap) ==
  IF didSnap THEN [x |-> RInt(0), y |-> RInt(0)]
  ELSE [x |-> prevItem.x, y |-> prevItem.y]

\* The item applyZoom's updater returns for prevItem.
ApplyZoom(prevItem, delta, aspects) ==
  LET z == ZoomSnap(prevItem, delta, aspects)
  IN  [scale |-> z.scale] @@ PanAfterZoom(prevItem, z.didSnap)

\* A feedback pulse on every snap.
VibratesOnEverySnap(prevItem, z, t, last) == z.didSnap

\* Whether the updater calls navigator.vibrate(10) at time t (on a device that
\* has navigator.vibrate).
Vibrates(prevItem, z, t, last) ==
  /\ z.didSnap
  /\ ~RLt(RAbs(RSub(prevItem.scale, z.scale)), SAME_SCALE_EPSILON)
  /\ t - last > VIBRATE_DEBOUNCE

\* applyZoom(item, delta) with Date.now() = now + elapsed.
ApplyZoomCall(id, delta, elapsed) ==
  LET prevItem == ItemById(items, id)
      z        == ZoomSnap(prevItem, delta, imageAspects)
      t        == now + elapsed
      pulse    == Vibrates(prevItem, z, t, lastVibrateTime)
      after    == UpdateItem(items, id, ApplyZoom(prevItem, delta, imageAspects))
  IN  /\ items' = after
      /\ now' = t
      /\ lastVibrateTime' = IF pulse THEN t ELSE lastVibrateTime
      /\ zoomCall' = [id |-> id, delta |-> delta, aspects |-> imageAspects,
                      before |-> items, after |-> after,
                      now |-> t, last |-> lastVibrateTime,
                      vibrate |-> IF pulse THEN 1 ELSE 0]

\* handlePointerMove with one pointer down: the pan logic.  item is the item
\* of the render that attached the handler, d the pointer's displacement
\* since its previous event.
HandlePointerMove(id, d) ==
  /\ activeTab = "moments" /\ Edit
  /\ id \in ItemIds(items) /\ ~IsAnchor(id)
  /\ id \in ItemIds(rendered)
  /\ itemPointers[id] = 1
  /\ LET item == Rendered(id)
     IN  items' = UpdateItem(items, id,
           [x |-> RAdd(item.x, RMul(RInt(d[1]), SENSITIVITY)),
            y |-> RAdd(item.y, RMul(RInt(d[2]), SENSITIVITY))])
  /\ panTrace' = IF panTrace.id = id
                    THEN [panTrace EXCEPT !.dx = @ + d[1], !.dy = @ + d[2]]
                    ELSE panTrace
  /\ reorderStep' = NoStep
  /\ NoZoom
  /\ UNCHANGED <<activeTab, exportVars, cropRefs, pipelineVars, selectedId, isPanning, panStartRef,
                 itemPointers, itemPinchStart, imageAspects, rendered, reorderState>>

\* handlePointerMove with two pointers down, now dist apart: the pinch logic.
HandlePinchMove(id, dist, elapsed) ==
  /\ activeTab = "moments" /\ Edit
  /\ id \in ItemIds(items) /\ itemPointers[id] = 2
  /\ itemPinchStart[id] # 0
  /\ ApplyZoomCall(id, RMul(RInt(dist - itemPinchStart[id]), Rat(5, 1000)),
                   elapsed)
  /\ itemPinchStart' = [itemPinchStart EXCEPT ![id] = dist]
  /\ UNCHANGED <<activeTab, exportVars, cropRefs, pipelineVars, selectedId, isPanning, panStartRef,
                 itemPointers, imageAspects>>
  /\ Settled

\* handlePointerUp / pointercancel of one pointer.
HandlePointerUp(id) ==
  /\ activeTab = "moments" /\ Edit
  /\ itemPointers[id] > 0
  /\ itemPointers' = [itemPointers EXCEPT ![id] = @ - 1]
  /\ itemPinchStart' = IF itemPointers'[id] < 2
                         THEN [itemPinchStart EXCEPT ![id] = 0]
                         ELSE itemPinchStart
  /\ NoZoom
  /\ UNCHANGED <<activeTab, exportVars, cropRefs, pipelineVars, items, selectedId, isPanning,
                 panStartRef, imageAspects>>
  /\ Settled

\* handleNativeWheel over the selected item.
StoryHandleNativeWheel(deltaY, elapsed) ==
  /\ activeTab = "moments" /\ Edit
  /\ selectedId \in ItemIds(items)
  /\ ApplyZoomCall(selectedId, RMul(RInt(-deltaY), Rat(1, 1000)), elapsed)
  /\ UNCHANGED <<activeTab, exportVars, cropRefs, pipelineVars, selectedId, isPanning, panStartRef,
                 itemPointers, itemPinchStart, imageAspects>>
  /\ Settled

\* The ratio select of the selected item's toolbar:
\* updateItem(item.id, { ratio, scale: 1, x: 0, y: 0 })
StoryRatioSelect(id, ratio) ==
  /\ activeTab = "moments" /\ Edit
  /\ reorderState = NoId
  /\ id \in ItemIds(items) /\ selectedId = id
  /\ ~IsAnchor(id)
  /\ ratio # ItemById(items, id).ratio
  /\ items' = UpdateItem(items, id,
       [ratio |-> ratio, scale |-> RInt(1), x |-> RInt(0), y |-> RInt(0)])
  /\ NoZoom
  /\ UNCHANGED <<activeTab, exportVars, cropRefs, pipelineVars, selectedId, isPanning, panStartRef,
                 itemPointers, itemPinchStart, imageAspects>>
  /\ Settled

\* updateItem(item.id, { scale: 1, x: 0, y: 0 })
StoryResetTransforms(id) ==
  /\ activeTab = "moments" /\ Edit
  /\ reorderState = NoId
  /\ id \in ItemIds(items) /\ selectedId = id
  /\ ~IsAnchor(id)
  /\ items' = UpdateItem(items, id,
                         [scale |-> RInt(1), x |-> RInt(0), y |-> RInt(0)])
  /\ NoZoom
  /\ UNCHANGED <<activeTab, exportVars, cropRefs, pipelineVars, selectedId, isPanning, panStartRef,
                 itemPointers, itemPinchStart, imageAspects>>
  /\ Settled

\* handleReorderDown on an item's handle; the anchor has none.
StoryHandleReorderDown(id) ==
  /\ activeTab = "moments" /\ Edit
  /\ id \in ItemIds(items) /\ ~IsAnchor(id)
  /\ reorderState = NoId
  /\ reorderState' = id
  /\ selectedId' = id
  /\ NoZoom
  /\ UNCHANGED <<activeTab, exportVars, cropRefs, pipelineVars, items, isPanning, panStartRef,
                 itemPointers, itemPinchStart, imageAspects>>
  /\ Flushed

\* handleGlobalMove with the pointer over the element of another item, as
\* the last render laid the elements out: the indices are those of
\* localItemsRef.current, the splices are made on prev.
StoryHandleGlobalMove(targetId) ==
  /\ activeTab = "moments" /\ Edit
  /\ reorderState \in ItemIds(rendered)
  /\ targetId \in ItemIds(rendered) \ {reorderState}
  /\ LET after == ReorderSplice(items, IndexOf(rendered, reorderState),
                                IndexOf(rendered, targetId))
     IN  /\ items' = after
         /\ reorderStep' = [activeId |-> reorderState, targetId |-> targetId,
                            before |-> items, after |-> after,
                            seen |-> rendered]
  /\ panTrace' = NoTrace
  /\ NoZoom
  /\ UNCHANGED <<activeTab, exportVars, cropRefs, pipelineVars, selectedId, isPanning, panStartRef,
                 itemPointers, itemPinchStart, imageAspects, rendered, reorderState>>

\* handleGlobalUp: pointerup or pointercancel on the window.
StoryHandleGlobalUp ==
  /\ activeTab = "moments" /\ Edit
  /\ reorderState # NoId
  /\ reorderState' = NoId
  /\ NoZoom
  /\ UNCHANGED <<activeTab, exportVars, cropRefs, pipelineVars, items, selectedId, isPanning,
                 panStartRef, itemPointers, itemPinchStart, imageAspects>>
  /\ Flushed

NextStoryEditor ==
  \/ \E id \in StoryIds : StoryHandleReorderDown(id)
  \/ \E id \in StoryIds : StoryHandleGlobalMove(id)
  \/ StoryHandleGlobalUp
  \/ \E id \in EditIds, img \in EditImages, position \in {"top", "bottom"} :
       AddFiles(id, img, position)
  \/ \E id \in EditIds : AspectLoaded(id)
  \/ \E id \in StoryIds : StoryRemoveItem(id)
  \/ StoryDeselect
  \/ \E id \in StoryIds, dist \in PinchDists : HandlePointerDown(id, dist)
  \/ \E id \in StoryIds, d \in PanDeltas : HandlePointerMove(id, d)
  \/ \E id \in EditIds, dist \in PinchDists,
          elapsed \in ElapsedAfter(lastVibrateTime) :
       HandlePinchMove(id, dist, elapsed)
  \/ \E id \in StoryIds : HandlePointerUp(id)
  \/ \E deltaY \in StoryWheelDeltaYs, elapsed \in ElapsedAfter(lastVibrateTime) :
       StoryHandleNativeWheel(deltaY, elapsed)
  \/ \E id \in StoryIds, ratio \in RATIOS : StoryRatioSelect(id, ratio)
  \/ \E id \in StoryIds : StoryResetTransforms(id)

(***************************************************************************)
(* The crop editors: NineGridSlicer ("grid") and the cover cropper of      *)
(* MomentsStitcher ("moments").  Both edit the crop that generateNineGrid  *)
(* is given; the same handlers are written out in both components.         *)
(***************************************************************************)
\* image = null / sourceImage = null
NoImage == <<0, 0>>

CropImages == {Img500x500, Img2000x3000}

\* Wheel deltaY of one event over the crop's container.
CropWheelDeltaYs == {-1200, 600}

\* clientX, clientY of a pointer event.
PointerXYs == {<<100, 100>>, <<130, 60>>}

\* Values of the zoom slider (min 0.2, max 3, step 0.01).
SliderValues == {Rat(1, 5), Rat(5, 4), RInt(3)}

\* const ZOOM_SENSITIVITY = 0.0015 of the wheel, 0.005 of the pinch
CROP_WHEEL_SENSITIVITY == Rat(15, 10000)

CROP_PINCH_SENSITIVITY == Rat(5, 1000)

\* No export is under way.
ExportIdle ==
  /\ loading = FALSE
  /\ isGenerating = FALSE
  /\ preflight = <<>>
  /\ exports = [started |-> 0, succeeded |-> 0, failed |-> 0]

CropIdle ==
  /\ isDragging = FALSE
  /\ dragStart = [x |-> RInt(0), y |-> RInt(0)]
  /\ activePointers = 0
  /\ initialPinchDist = 0
  /\ cropEvent = "none"
  /\ heldSincePinch = FALSE

\* What the crop editors leave alone.
cropFrame == <<activeTab, exportVars, uiContainerSize, gridPc, gridWork, row, col,
               stitchVars, selectedId, isPanning, panStartRef, itemPointers,
               imageAspects, storyRefs, dragRefs>>

CropTab == activeTab \in {"grid", "moments"}

\* The most events of a crop editor in one run.
MaxCropEdits == 5

\* One more event of a crop editor.
CropEdit ==
  /\ edits < MaxCropEdits
  /\ edits' = edits + 1

\* A plausible slip: the scale limited from below only.
ClampFromBelow(v, lo, hi) == RMax(lo, v)

\* Math.min(Math.max(MIN_SCALE, v), MAX_SCALE) of the crop's handlers
CropClamp(v, lo, hi) == RMin(RMax(lo, v), hi)

\* handleFile / handleSourceFile: img.onload of the picked file.
HandleFile(img) ==
  /\ CropTab /\ CropEdit
  /\ gridImg' = img
  /\ slices' = <<>>
  /\ crop' = [x |-> RInt(0), y |-> RInt(0), scale |-> RInt(1)]
  /\ cropEvent' = "file"
  /\ UNCHANGED <<cropFrame, isDragging, dragStart, activePointers,
                 initialPinchDist, heldSincePinch>>

\* handleWheel on the container, which listens only while an image is shown.
HandleWheel(deltaY) ==
  /\ CropTab /\ CropEdit
  /\ gridImg # NoImage
  /\ LET delta == RMul(RInt(-deltaY), CROP_WHEEL_SENSITIVITY)
     IN  crop' = [crop EXCEPT
                    !.scale = CropClamp(RAdd(crop.scale, delta),
                                        MIN_SCALE, MAX_SCALE)]
  /\ cropEvent' = "wheel"
  /\ UNCHANGED <<cropFrame, gridImg, slices, isDragging, dragStart,
                 activePointers, initialPinchDist,
                 heldSincePinch>>

\* handlePointerDown at p; a second pointer is dist away from the first.
CropPointerDown(p, dist) ==
  /\ CropTab /\ CropEdit
  /\ gridImg # NoImage
  /\ activePointers < MaxPointers
  /\ activePointers' = activePointers + 1
  /\ isDragging' = IF activePointers' = 1 THEN TRUE
                   ELSE IF activePointers' = 2 THEN FALSE ELSE isDragging
  /\ dragStart' = IF activePointers' = 1
                    THEN [x |-> RSub(RInt(p[1]), crop.x),
                          y |-> RSub(RInt(p[2]), crop.y)]
                    ELSE dragStart
  /\ initialPinchDist' = IF activePointers' = 2 THEN dist ELSE initialPinchDist
  /\ cropEvent' = "down"
  /\ UNCHANGED <<cropFrame, gridImg, crop, slices, heldSincePinch>>

\* handlePointerMove with two pointers down, now dist apart: the pinch.
CropPinchMove(dist) ==
  /\ CropTab /\ CropEdit
  /\ gridImg # NoImage
  /\ activePointers = 2
  /\ initialPinchDist # 0
  /\ LET delta == RInt(dist - initialPinchDist)
     IN  crop' = [crop EXCEPT
                    !.scale = CropClamp(RAdd(crop.scale,
                                             RMul(delta, CROP_PINCH_SENSITIVITY)),
                                        MIN_SCALE, MAX_SCALE)]
  /\ initialPinchDist' = dist
  /\ cropEvent' = "pinch"
  /\ UNCHANGED <<cropFrame, gridImg, slices, isDragging, dragStart,
                 activePointers, heldSincePinch>>

\* handlePointerMove with one pointer down, now at p: the drag.
CropDragMove(p) ==
  /\ CropTab /\ CropEdit
  /\ gridImg # NoImage
  /\ activePointers = 1 /\ isDragging
  /\ crop' = [crop EXCEPT !.x = RSub(RInt(p[1]), dragStart.x),
                          !.y = RSub(RInt(p[2]), dragStart.y)]
  /\ cropEvent' = "drag"
  /\ UNCHANGED <<cropFrame, gridImg, slices, isDragging, dragStart,
                 activePointers, initialPinchDist,
                 heldSincePinch>>

\* A plausible slip: the finger that remains after a pinch resumes the drag.
ResumeDrag(size, dragging) == IF size = 1 THEN TRUE ELSE size >= 2 /\ dragging

\* isDragging after handlePointerUp has deleted the pointer: false with no
\* pointer left and with one left, untouched otherwise.
DraggingAfterUp(size, dragging) == IF size < 2 THEN FALSE ELSE dragging

\* handlePointerUp (also pointercancel and pointerleave) of a pointer that
\* is down.
CropPointerUp ==
  /\ CropTab /\ CropEdit
  /\ gridImg # NoImage
  /\ activePointers > 0
  /\ activePointers' = activePointers - 1
  /\ initialPinchDist' = IF activePointers' < 2 THEN 0 ELSE initialPinchDist
  /\ isDragging' = DraggingAfterUp(activePointers', isDragging)
  /\ heldSincePinch' = IF activePointers' = 0 THEN FALSE
                       ELSE IF activePointers = 2 /\ initialPinchDist # 0
                         THEN TRUE ELSE heldSincePinch
  /\ cropEvent' = "up"
  /\ UNCHANGED <<cropFrame, gridImg, crop, slices, dragStart>>

\* handlePointerUp by pointerleave (or a second up) of a pointer that is not
\* in activePointers: the delete does nothing, the size tests run.
CropPointerLeave ==
  /\ CropTab /\ CropEdit
  /\ gridImg # NoImage
  /\ initialPinchDist' = IF activePointers < 2 THEN 0 ELSE initialPinchDist
  /\ isDragging' = DraggingAfterUp(activePointers, isDragging)
  /\ cropEvent' = "leave"
  /\ UNCHANGED <<cropFrame, gridImg, crop, slices, dragStart, activePointers,
                 heldSincePinch>>

\* handlePointerMove of a pointer that is down when neither branch acts: one
\* pointer and no drag, two and no pinch distance, or more than two.
CropIdleMove ==
  /\ CropTab /\ CropEdit
  /\ gridImg # NoImage
  /\ activePointers > 0
  /\ ~(activePointers = 2 /\ initialPinchDist # 0)
  /\ ~(activePointers = 1 /\ isDragging)
  /\ cropEvent' = "move"
  /\ UNCHANGED <<cropFrame, gridImg, crop, slices, isDragging, dragStart,
                 activePointers, initialPinchDist, heldSincePinch>>

\* onChange of the zoom slider of NineGridSlicer.
SliderChange(value) ==
  /\ activeTab = "grid" /\ CropEdit
  /\ gridImg # NoImage
  /\ crop' = [crop EXCEPT !.scale = value]
  /\ cropEvent' = "slider"
  /\ UNCHANGED <<cropFrame, gridImg, slices, isDragging, dragStart,
                 activePointers, initialPinchDist,
                 heldSincePinch>>

\* The reset button: setCrop({ x: 0, y: 0, scale: 1 })
ResetView ==
  /\ CropTab /\ CropEdit
  /\ gridImg # NoImage
  /\ crop' = [x |-> RInt(0), y |-> RInt(0), scale |-> RInt(1)]
  /\ cropEvent' = "reset"
  /\ UNCHANGED <<cropFrame, gridImg, slices, isDragging, dragStart,
                 activePointers, initialPinchDist,
                 heldSincePinch>>

\* The remove button: setImage(null) / setSourceImage(null)
ClearImage ==
  /\ CropTab /\ CropEdit
  /\ gridImg # NoImage
  /\ gridImg' = NoImage
  /\ cropEvent' = "clear"
  /\ UNCHANGED <<cropFrame, crop, slices, isDragging, dragStart,
                 activePointers, initialPinchDist,
                 heldSincePinch>>

NextCrop ==
  \/ \E img \in CropImages : HandleFile(img)
  \/ \E deltaY \in CropWheelDeltaYs : HandleWheel(deltaY)
  \/ \E p \in PointerXYs, dist \in PinchDists : CropPointerDown(p, dist)
  \/ \E dist \in PinchDists : CropPinchMove(dist)
  \/ \E p \in PointerXYs : CropDragMove(p)
  \/ CropPointerUp
  \/ CropPointerLeave
  \/ CropIdleMove
  \/ \E value \in SliderValues : SliderChange(value)
  \/ ResetView
  \/ ClearImage

\* Either component as mounted: no image, the initial crop.
InitCrop ==
  /\ activeTab \in {"grid", "moments"}
  /\ gridImg = NoImage
  /\ crop = DefaultCrop
  /\ uiContainerSize = 400
  /\ GridIdle
  /\ CropIdle
  /\ ExportIdle
  /\ items = NoItems
  /\ config = DefaultConfig
  /\ StitchIdle
  /\ EditIdle
  /\ rendered = items

SpecCrop == InitCrop /\ [][NextCrop]_vars

(***************************************************************************)
(* The editors on their own: no export is running.                         *)
(***************************************************************************)
InitEdit ==
  /\ activeTab \in {"stitch", "moments"}
  /\ items \in IF activeTab = "moments"
                THEN {<<AnchorItem>>, StoryOfThree}
                       \cup {<<AnchorItem, [id |-> 1] @@ p>> : p \in StoryPool}
                ELSE {NoItems, StitchOfTwo}
  /\ config = DefaultConfig
  /\ EditIdle
  /\ StitchIdle
  /\ gridImg = Img500x500
  /\ crop = DefaultCrop
  /\ uiContainerSize = 400
  /\ GridIdle
  /\ CropIdle
  /\ ExportIdle
  /\ rendered = items

NextEdit == NextLongImageStitcher \/ NextStoryEditor

SpecEdit == InitEdit /\ [][NextEdit]_vars

Init ==
  /\ EditIdle
  /\ CropIdle
  /\ ExportIdle
  /\ \/ /\ InitGrid
        /\ items = NoItems
        /\ config = DefaultConfig
        /\ StitchIdle
     \/ /\ InitStitch
        /\ gridImg = Img500x500
        /\ crop = DefaultCrop
        /\ uiContainerSize = 400
        /\ GridIdle
  /\ rendered = items

Next == NextGrid \/ NextStitch

Spec == Init /\ [][Next]_vars

(***************************************************************************)
(* The export handlers: NineGridSlicer.handleGenerate and                  *)
(* LongImageStitcher.handleDownload around the two calls.  Each sets its   *)
(* busy flag, awaits the call in try/catch/finally and clears the flag;    *)
(* the button that starts it is disabled while the flag is set.            *)
(***************************************************************************)
\* The most exports a user starts in one run.
MaxExports == 2

\* An export of the stitcher measures the sources and needs no geometry of
\* its own: the inputs are the lists of items in their original ratio.
ExportItemLists ==
  { its \in ItemLists : \A i \in DOMAIN its : its[i].ratio = "original" }

Started == [exports EXCEPT !.started = @ + 1]

Succeeded == [exports EXCEPT !.succeeded = @ + 1]

Failed == [exports EXCEPT !.failed = @ + 1]

\* A plausible slip: the flag cleared at the end of the try block, so that
\* it stays set when the call throws.
ClearedAfterTry(ok) == ~ok

\* finally { setLoading(false) }, finally { setIsGenerating(false) }: the
\* flag after the call has settled, ok telling whether it fulfilled.
BusyAfter(ok) == FALSE

\* Click on "Slice Image" (disabled while loading): the flag is set and the
\* call is put on a 50 ms timer.
HandleGenerate ==
  /\ activeTab = "grid"
  /\ gridImg # NoImage
  /\ ~loading
  /\ exports.started < MaxExports
  /\ loading' = TRUE
  /\ exports' = Started
  /\ UNCHANGED <<activeTab, cropRefs, editVars, gridVars, stitchVars,
                 isGenerating, preflight>>

\* The timer fires: generateNineGrid is called and awaited.
GenerateTimeout ==
  /\ loading
  /\ GenerateNineGrid

\* The call has settled: setSlices on success, alert in catch; finally the
\* flag is cleared.  The call's locals are gone.
GenerateSettled ==
  /\ loading
  /\ gridPc \in {"done", "failedDecode", "failedContext"}
  /\ LET ok == gridPc = "done"
     IN  /\ exports' = IF ok THEN Succeeded ELSE Failed
         /\ loading' = BusyAfter(ok)
  /\ gridPc' = "idle"
  /\ UNCHANGED <<activeTab, cropRefs, editVars, gridIn, gridWork, gridLoop,
                 stitchVars, isGenerating, preflight>>

\* Click on "Export Image" (disabled without items and while isGenerating):
\* the flag is set and every item's image is loaded to measure it.
HandleDownload ==
  /\ activeTab = "stitch"
  /\ Len(items) > 0
  /\ ~isGenerating
  /\ exports.started < MaxExports
  /\ isGenerating' = TRUE
  /\ preflight' = [i \in 1..Len(items) |-> "pending"]
  /\ exports' = Started
  /\ UNCHANGED <<activeTab, cropRefs, editVars, gridVars, stitchVars, loading>>

\* img.onload, img.onerror of a measuring load.
PreflightLoad(i, result) ==
  /\ isGenerating
  /\ stitchPc = "idle"
  /\ preflight[i] = "pending"
  /\ preflight' = [preflight EXCEPT ![i] = result]
  /\ UNCHANGED <<activeTab, cropRefs, editVars, gridVars, stitchVars, loading,
                 isGenerating, exports>>

PreflightLoadOk(i) == PreflightLoad(i, "loaded")

PreflightLoadError(i) == PreflightLoad(i, "error")

\* Every measuring load has resolved: generateStitchedImage(items, config,
\* optimalWidth) is called and awaited.
DownloadGenerate ==
  /\ isGenerating
  /\ preflight # <<>>
  /\ PromiseAll(preflight) = "fulfilled"
  /\ outputWidth' = OptimalWidth(items)
  /\ GenerateStitchedImage

\* The measuring loads or the call have settled: the download is clicked on
\* success, alert in catch; finally the flag is cleared.  The call's locals
\* are gone.
DownloadSettled ==
  /\ isGenerating
  /\ \/ PromiseAll(preflight) = "rejected"
     \/ stitchPc = "done"
     \/ StitchFailed
  /\ LET ok == stitchPc = "done"
     IN  /\ exports' = IF ok THEN Succeeded ELSE Failed
         /\ isGenerating' = BusyAfter(ok)
  /\ preflight' = <<>>
  /\ stitchPc' = "idle"
  /\ stitchError' = NoError
  /\ outputWidth' = 0
  /\ loads' = <<>>
  /\ arrived' = <<>>
  /\ contentWidth' = RInt(0)
  /\ drawData' = <<>>
  /\ totalHeight' = RInt(0)
  /\ finalScale' = ScaleOne
  /\ canvas' = NoCanvas
  /\ background' = NoFill
  /\ currentY' = RInt(0)
  /\ drawn' = <<>>
  /\ UNCHANGED <<activeTab, cropRefs, editVars, gridVars, stitchIn, loading>>

NextExport ==
  \/ HandleGenerate
  \/ GenerateTimeout
  \/ GridLoadError
  \/ GridNoContext
  \/ GridCompose
  \/ GridSliceTile
  \/ GridSliceSkip
  \/ GridReturn
  \/ GenerateSettled
  \/ HandleDownload
  \/ \E i \in DOMAIN preflight : PreflightLoadOk(i)
  \/ \E i \in DOMAIN preflight : PreflightLoadError(i)
  \/ DownloadGenerate
  \/ \E i \in DOMAIN loads : StitchLoadOk(i)
  \/ \E i \in DOMAIN loads : StitchLoadError(i)
  \/ StitchLayoutDone
  \/ StitchNoContext
  \/ StitchDrawItem
  \/ StitchEncoded
  \/ StitchEmptyBlob
  \/ DownloadSettled

\* Either component with its inputs chosen and no export under way.
InitExport ==
  /\ EditIdle
  /\ CropIdle
  /\ ExportIdle
  /\ \/ /\ activeTab = "grid"
        /\ gridImg \in {Img500x500, Img2000x3000}
        /\ crop = DefaultCrop
        /\ uiContainerSize = 400
        /\ GridIdle
        /\ items = NoItems
        /\ config = DefaultConfig
        /\ StitchIdle
     \/ /\ activeTab = "stitch"
        /\ items \in ExportItemLists
        /\ config = DefaultConfig
        /\ StitchIdle
        /\ gridImg = Img500x500
        /\ crop = DefaultCrop
        /\ uiContainerSize = 400
        /\ GridIdle
  /\ rendered = items

\* What runs without the user: every image load fires its load or its error
\* event, a timer fires, the code after an await and a canvas callback run.
\* The clicks that start an export are the user's and are not forced.  For
\* the layout and the drawing step weak fairness is written out, with the
\* step's guard for ENABLED: infinitely often the step is not possible or
\* it is taken.
ExportFairness ==
  /\ WF_vars(GenerateTimeout)
  /\ WF_vars(GridLoadError \/ GridNoContext \/ GridCompose)
  /\ WF_vars(GridSliceTile \/ GridSliceSkip)
  /\ WF_vars(GridReturn)
  /\ WF_vars(GenerateSettled)
  /\ \A i \in 1..MaxItems :
       /\ WF_vars(/\ i \in DOMAIN preflight
                  /\ PreflightLoadOk(i) \/ PreflightLoadError(i))
       /\ WF_vars(/\ i \in DOMAIN loads
                  /\ StitchLoadOk(i) \/ StitchLoadError(i))
  /\ WF_vars(DownloadGenerate)
  /\ \/ []<>~(stitchPc = "loading" /\ PromiseAll(loads) = "fulfilled")
     \/ []<><<StitchLayoutDone \/ StitchNoContext>>_vars
  /\ \/ []<>~(stitchPc = "drawing" /\ Len(drawn) < Len(drawData))
     \/ []<><<StitchDrawItem>>_vars
  /\ WF_vars(StitchEncoded \/ StitchEmptyBlob)
  /\ WF_vars(DownloadSettled)

SpecExport == InitExport /\ [][NextExport]_vars /\ ExportFairness

(***************************************************************************)
(* Properties.                                                             *)
(***************************************************************************)
\* generateNineGrid has composed the surface.
GridComposed == gridPc \in {"slicing", "done"}

\* generateStitchedImage has laid the items out.
StitchLaidOut ==
  stitchPc \in {"drawing", "done", "failedContext", "failedEncode"}

SlotCx(d) == RAdd(d.slot.x, RHalf(d.slot.w))

SlotCy(d) == RAdd(d.slot.y, RHalf(d.slot.h))

Percent(p, of) == RMul(RDiv(p, RInt(100)), of)

\* C1: whenever generateNineGrid returns, it returns exactly 9 tiles in
\* row-major order: the tile at index row*3+col (counted from 0) is the copy
\* of the composite's region in grid column col and grid row row.
C1_NineTilesRowMajor ==
  gridPc = "done" =>
    /\ Len(slices) = 9
    /\ \A r \in 0..2, c \in 0..2 :
         /\ slices[r * 3 + c + 1].sx = RMul(RInt(c), Rat(outputSize, 3))
         /\ slices[r * 3 + c + 1].sy = RMul(RInt(r), Rat(outputSize, 3))
         /\ slices[r * 3 + c + 1].sw = Rat(outputSize, 3)
         /\ slices[r * 3 + c + 1].sh = Rat(outputSize, 3)

\* C2: the square surface generateNineGrid composes on has the side
\* outputSize = max(1080, min(imgW, imgH)): never below 1080, never below the
\* image's smaller dimension, and no larger than those two demand.
C2_OutputSize ==
  GridComposed =>
    /\ outputSize >= 1080
    /\ outputSize >= gridImg[1] \/ outputSize >= gridImg[2]
    /\ outputSize = 1080
         \/ (outputSize <= gridImg[1] /\ outputSize <= gridImg[2])
    /\ gridImg = <<2000, 3000>> => outputSize = 2000
    /\ gridImg = <<500, 500>> => outputSize = 1080

C2_Witness ==
  /\ gridPc = "done"
  /\ gridImg = <<2000, 3000>>
  /\ outputSize = 2000

\* C3 as stated: in generateStitchedImage the pan is applied before the zoom,
\* so every drawn image's centre lies at slot centre + (item.x/100*drawW,
\* item.y/100*drawH), whatever item.scale is.
C3_PanIndependentOfZoom ==
  \A k \in DOMAIN drawn :
    /\ drawn[k].rect.cx
         = RAdd(SlotCx(drawn[k]), Percent(items[k].x, drawn[k].drawW))
    /\ drawn[k].rect.cy
         = RAdd(SlotCy(drawn[k]), Percent(items[k].y, drawn[k].drawH))

\* C3 as amended: in generateStitchedImage the zoom is applied before the pan
\* (centre, scale, pan), so with s = item.scale (1 when item.scale is 0) every
\* drawn image's centre lies at slot centre + s * (item.x/100*drawW,
\* item.y/100*drawH) and its size is s times the cover-fit size: the pan
\* distance grows with the zoom.
C3_PanScaledByZoom ==
  \A k \in DOMAIN drawn :
    LET s == IF items[k].scale = RInt(0) THEN RInt(1) ELSE items[k].scale
    IN  /\ drawn[k].rect.cx
             = RAdd(SlotCx(drawn[k]),
                    RMul(s, Percent(items[k].x, drawn[k].drawW)))
        /\ drawn[k].rect.cy
             = RAdd(SlotCy(drawn[k]),
                    RMul(s, Percent(items[k].y, drawn[k].drawH)))
        /\ drawn[k].rect.w = RMul(s, drawn[k].drawW)
        /\ drawn[k].rect.h = RMul(s, drawn[k].drawH)

C3_Witness ==
  /\ stitchPc = "done"
  /\ \E k \in DOMAIN drawn :
       /\ items[k].scale = RInt(2)
       /\ items[k].x = RInt(10)
       /\ items[k].y = RInt(-20)

\* C4: generateNineGrid draws the image centre, pan, scale with pan =
\* (crop.x, crop.y) * K, K = outputSize / uiContainerSize: the drawn image's
\* centre is (outputSize/2 + crop.x*K, outputSize/2 + crop.y*K) for every
\* crop.scale, and its size is crop.scale times the cover-fit size.
C4_GridCentrePanScale ==
  GridComposed =>
    LET K == Rat(outputSize, uiContainerSize)
    IN  /\ gridDrawn.cx = RAdd(Rat(outputSize, 2), RMul(crop.x, K))
        /\ gridDrawn.cy = RAdd(Rat(outputSize, 2), RMul(crop.y, K))
        /\ gridDrawn.w = RMul(crop.scale, drawWidth)
        /\ gridDrawn.h = RMul(crop.scale, drawHeight)
        /\ RMin(drawWidth, drawHeight) = RInt(outputSize)
        /\ RMul(drawWidth, RInt(gridImg[2])) = RMul(drawHeight, RInt(gridImg[1]))

C4_Witness ==
  /\ gridPc = "done"
  /\ Len(slices) = 9
  /\ crop.scale = Rat(3, 2)
  /\ crop.x = RInt(30)
  /\ crop.y = RInt(-50)
  /\ gridImg = <<3000, 2000>>

\* Offset of a rectangle's centre from its region's centre, and its size, as
\* fractions of the region's size.
Placement(rect, cx, cy, w, h) ==
  [dx |-> RDiv(RSub(rect.cx, cx), w), dy |-> RDiv(RSub(rect.cy, cy), h),
   zw |-> RDiv(rect.w, w), zh |-> RDiv(rect.h, h)]

C6_CoverFit ==
  /\ GridComposed =>
       /\ RGe(drawWidth, RInt(outputSize))
       /\ RGe(drawHeight, RInt(outputSize))
       /\ drawWidth = RInt(outputSize) \/ drawHeight = RInt(outputSize)
       /\ RDiv(drawWidth, drawHeight) = Rat(gridImg[1], gridImg[2])
  /\ \A k \in DOMAIN drawn :
       /\ RGe(drawn[k].drawW, contentWidth)
       /\ RGe(drawn[k].drawH, drawData[k].slotHeight)
       /\ drawn[k].drawW = contentWidth
            \/ drawn[k].drawH = drawData[k].slotHeight
       /\ RDiv(drawn[k].drawW, drawn[k].drawH)
            = Rat(items[k].img[1], items[k].img[2])

C6_Witness ==
  /\ stitchPc = "done"
  /\ \E k \in DOMAIN drawn : RGt(drawn[k].drawW, contentWidth)
  /\ \E k \in DOMAIN drawn : RGt(drawn[k].drawH, drawData[k].slotHeight)

\* C7: changing an item's ratio leaves that item with scale = 1, x = 0,
\* y = 0, whatever its transform was before, in the Long Stitch editor and in
\* the Moments story editor.
C7_RatioChangeResets ==
  [][\A i \in DOMAIN items : \A j \in DOMAIN items' :
       (items'[j].id = items[i].id /\ items'[j].ratio # items[i].ratio)
         => /\ items'[j].scale = RInt(1)
            /\ items'[j].x = RInt(0)
            /\ items'[j].y = RInt(0)]_vars

\* C8: the safety downscale.  With area = outputWidth * totalHeight: if area
\* <= 50,000,000 then finalScale = 1 and the canvas is floor(outputWidth) x
\* floor(totalHeight); otherwise finalScale = sqrt(50,000,000 / area) and the
\* canvas, the floors of the scaled sides, is the largest of its proportions
\* with an area <= 50,000,000.  The canvas' area never exceeds the cap.
C8_SafetyDownscale ==
  StitchLaidOut =>
    LET area == RMul(RInt(outputWidth), totalHeight)
    IN  /\ RLe(area, RInt(50000000)) =>
             /\ finalScale = [num |-> 1, den |-> RInt(1)]
             /\ canvas.width = outputWidth
             /\ RLe(RInt(canvas.height), totalHeight)
             /\ RGt(RInt(canvas.height + 1), totalHeight)
        /\ RGt(area, RInt(50000000)) =>
             /\ finalScale = [num |-> 50000000, den |-> area]
             /\ canvas.width < outputWidth
             /\ RLt(RInt(canvas.height), totalHeight)
             /\ (canvas.width + 1) * (canvas.height + 1) > 50000000
             /\ RLt(RMul(RInt(canvas.width), totalHeight),
                    RMul(RInt(canvas.height + 1), RInt(outputWidth)))
             /\ RLt(RMul(RInt(canvas.height), RInt(outputWidth)),
                    RMul(RInt(canvas.width + 1), totalHeight))
        /\ canvas.width * canvas.height <= 50000000

C8_Witness ==
  /\ stitchPc = "done"
  /\ finalScale # [num |-> 1, den |-> RInt(1)]
  /\ outputWidth = 7200
  /\ canvas.width < 7200
  /\ canvas.width * canvas.height > 49900000

RECURSIVE SumSlotHeights(_, _)
SumSlotHeights(dd, k) ==
  IF k = 0 THEN RInt(0) ELSE RAdd(SumSlotHeights(dd, k - 1), dd[k].slotHeight)

\* C9: totalHeight = the sum of the slot heights + (n - 1) * innerSpacing +
\* 2 * outerPadding; the slots follow one another with innerSpacing between
\* each consecutive pair and none after the last, outerPadding above the
\* first and below the last.
C9_HeightAccounting ==
  /\ StitchLaidOut =>
       totalHeight
         = RAdd(SumSlotHeights(drawData, Len(drawData)),
                RInt((Len(items) - 1) * config.innerSpacing
                       + 2 * config.outerPadding))
  /\ \A k \in DOMAIN drawn :
       /\ k = 1 => drawn[k].slot.y = RInt(config.outerPadding)
       /\ k > 1 => drawn[k].slot.y
                     = RAdd(RAdd(drawn[k - 1].slot.y, drawn[k - 1].slot.h),
                            RInt(config.innerSpacing))
       /\ k = Len(items) =>
            totalHeight = RAdd(RAdd(drawn[k].slot.y, drawn[k].slot.h),
                               RInt(config.outerPadding))

C9_Witness ==
  /\ stitchPc = "done"
  /\ Len(drawn) = 2
  /\ config.innerSpacing = 10
  /\ config.outerPadding = 18

\* C10: the stitch is all-or-nothing.  Once the load of any item has failed
\* the call has failed, whatever the other loads do and in whatever order,
\* and nothing is laid out or drawn; an output holds every item, in order.
C10_AllOrNothing ==
  /\ (\E i \in DOMAIN loads : loads[i] = "error") =>
       /\ stitchPc = "failedDecode"
       /\ canvas = NoCanvas
       /\ drawn = <<>>
  /\ stitchPc = "done" =>
       /\ \A i \in DOMAIN loads : loads[i] = "loaded"
       /\ Len(drawn) = Len(items)
       /\ \A k \in DOMAIN drawn : drawn[k].id = items[k].id

C10_Witness ==
  /\ stitchPc = "failedDecode"
  /\ Len(items) = 2
  /\ loads[1] = "loaded"
  /\ loads[2] = "error"

\* C11: in generateNineGrid a decode failure or an unavailable drawing context
\* (of the composite or of any tile) is fatal: a failed call holds no tiles,
\* and a call that returns never returns fewer than 9 tiles.
C11_GridFailureIsFatal ==
  /\ gridPc \in {"failedDecode", "failedContext"} => slices = <<>>
  /\ gridPc = "done" => Len(slices) >= 9

\* C12: each of the nine tiles is a square of outputSize/3 pixels a side and
\* the tile at (row, col) holds exactly the composite's pixels
\* [col*side, (col+1)*side) x [row*side, (row+1)*side): the tiles of a row
\* (column) start on pixel boundaries and their widths (heights) add up to
\* outputSize, also when outputSize is no multiple of 3.
C12_TilesPartitionComposite ==
  (gridPc = "done" /\ Len(slices) = 9) =>
    \A r \in 0..2, c \in 0..2 :
      LET t == slices[r * 3 + c + 1]
      IN  /\ t.width = t.height
          /\ 3 * t.width = outputSize
          /\ t.sx = RInt(c * t.width)
          /\ t.sy = RInt(r * t.height)
          /\ t.sw = RInt(t.width)
          /\ t.sh = RInt(t.height)

\* The applyZoom call of the latest event: the item before and after it, the
\* clamped candidate c, the snap targets, and whether the call snaps.
Zoomed == zoomCall # NoCall

ZoomPrev == ItemById(zoomCall.before, zoomCall.id)

ZoomNew == ItemById(zoomCall.after, zoomCall.id)

ZoomC ==
  LET v == RAdd(ZoomPrev.scale, zoomCall.delta)
  IN  IF RLt(v, Rat(1, 100)) THEN Rat(1, 100)
      ELSE IF RGt(v, RInt(5)) THEN RInt(5) ELSE v

ZoomCover == RInt(1)

\* contain from the image aspect the call reads (1.0 until the item's aspect
\* has been pre-loaded) and the aspect of the item's slot.
ZoomContain ==
  LET imgAspect  == IF zoomCall.id \in zoomCall.aspects
                      THEN Rat(ZoomPrev.img[1], ZoomPrev.img[2]) ELSE RInt(1)
      wh         == RatioWH(ZoomPrev.ratio)
      slotAspect == IF ZoomPrev.ratio = "original" THEN imgAspect
                    ELSE Rat(wh[1], wh[2])
  IN  IF RGt(imgAspect, slotAspect) THEN RDiv(slotAspect, imgAspect)
      ELSE RDiv(imgAspect, slotAspect)

ZoomDistCover == RAbs(RSub(ZoomC, ZoomCover))

ZoomDistContain == RAbs(RSub(ZoomC, ZoomContain))

ZoomSnapsToCover ==
  RLt(ZoomDistCover, Rat(1, 20)) /\ RLe(ZoomDistCover, ZoomDistContain)

ZoomSnapsToContain == ~ZoomSnapsToCover /\ RLt(ZoomDistContain, Rat(1, 20))

ZoomSnaps == ZoomSnapsToCover \/ ZoomSnapsToContain

\* C13: after any sequence of editor operations every StitchItem's scale lies
\* in [0.01, 5.0], for every image aspect and slot ratio.
C13_ScaleInDomain ==
  \A k \in DOMAIN items :
    RLe(Rat(1, 100), items[k].scale) /\ RLe(items[k].scale, RInt(5))

\* C14: the snap rule of applyZoom: with c the clamped candidate, cover = 1.0
\* and contain <= 1.0, the new scale is cover if |c - cover| < 0.05 and
\* |c - cover| <= |c - contain|, otherwise contain if |c - contain| < 0.05,
\* otherwise c.
C14_SnapRule ==
  Zoomed =>
    /\ RLe(ZoomContain, RInt(1))
    /\ ZoomNew.scale = IF ZoomSnapsToCover THEN ZoomCover
                       ELSE IF ZoomSnapsToContain THEN ZoomContain
                       ELSE ZoomC

\* A call in which c is within the threshold of both targets, nearer to
\* cover, and the targets differ.
C14_Witness ==
  /\ Zoomed
  /\ ZoomContain # ZoomCover
  /\ RLt(ZoomDistContain, Rat(1, 20))
  /\ ZoomSnapsToCover
  /\ ZoomNew.scale = ZoomCover

\* C15: once an item's scale equals cover or contain, applyZoom with delta = 0
\* leaves the scale unchanged and emits no feedback pulse.
C15_SnapIdempotent ==
  (Zoomed /\ zoomCall.delta = RInt(0)
          /\ ZoomPrev.scale \in {ZoomCover, ZoomContain}) =>
    /\ ZoomNew.scale = ZoomPrev.scale
    /\ zoomCall.vibrate = 0

\* A zero-delta call on an item that an earlier call snapped to a contain
\* other than cover; time enough has passed for another pulse.
C15_Witness ==
  /\ Zoomed
  /\ zoomCall.delta = RInt(0)
  /\ ZoomPrev.scale = ZoomContain
  /\ ZoomContain # ZoomCover
  /\ zoomCall.now - zoomCall.last > 150

\* C16: a snapping applyZoom leaves the item's pan at (0,0), a call that
\* does not snap leaves the pan unchanged, and in both cases every other
\* item of the list is unchanged.
C16_ZoomFrame ==
  Zoomed =>
    /\ ZoomSnaps => ZoomNew.x = RInt(0) /\ ZoomNew.y = RInt(0)
    /\ ~ZoomSnaps => ZoomNew.x = ZoomPrev.x /\ ZoomNew.y = ZoomPrev.y
    /\ Len(zoomCall.after) = Len(zoomCall.before)
    /\ \A k \in DOMAIN zoomCall.before :
         zoomCall.before[k].id # zoomCall.id =>
           zoomCall.after[k] = zoomCall.before[k]

\* A snapping call on a panned item of a list that holds another item.
C16_Witness ==
  /\ Zoomed
  /\ ZoomSnaps
  /\ ZoomPrev.x # RInt(0)
  /\ Len(zoomCall.before) >= 2

\* C17: applyZoom emits a feedback pulse exactly on a snap where the previous
\* scale differs from the snapped value by more than the epsilon and at
\* least 150 ms have elapsed since the last pulse; at most one pulse per
\* call, and two pulses are never less than 150 ms apart.
C17_FeedbackDebounce ==
  Zoomed =>
    /\ zoomCall.vibrate \in {0, 1}
    /\ zoomCall.vibrate = 1 <=>
         /\ ZoomSnaps
         /\ RGt(RAbs(RSub(ZoomPrev.scale, ZoomNew.scale)), Rat(1, 10000))
         /\ zoomCall.now - zoomCall.last >= 150
    /\ zoomCall.vibrate = 1 => zoomCall.now - zoomCall.last >= 150

\* Rectangles [x, y, w, h] of the logical surface as sets of points: r lies
\* inside s; r and s share no area.
RectEmpty(r) == r.w = RInt(0) \/ r.h = RInt(0)

RectInside(r, s) ==
  \/ RectEmpty(r)
  \/ /\ RGe(r.x, s.x) /\ RLe(RAdd(r.x, r.w), RAdd(s.x, s.w))
     /\ RGe(r.y, s.y) /\ RLe(RAdd(r.y, r.h), RAdd(s.y, s.h))

RectsDisjoint(r, s) ==
  \/ RectEmpty(r) \/ RectEmpty(s)
  \/ RLe(RAdd(r.x, r.w), s.x) \/ RLe(RAdd(s.x, s.w), r.x)
  \/ RLe(RAdd(r.y, r.h), s.y) \/ RLe(RAdd(s.y, s.h), r.y)

\* The outer padding: the four strips along the edges of the surface.
PaddingStrips ==
  LET p == RInt(config.outerPadding)
      w == RInt(outputWidth)
  IN  { [x |-> RInt(0), y |-> RInt(0), w |-> p, h |-> totalHeight],
        [x |-> RSub(w, p), y |-> RInt(0), w |-> p, h |-> totalHeight],
        [x |-> RInt(0), y |-> RInt(0), w |-> w, h |-> p],
        [x |-> RInt(0), y |-> RSub(totalHeight, p), w |-> w, h |-> p] }

\* The inter-item spacing below each slot drawn so far but the last.
SpacingStrips ==
  { [x |-> RInt(config.outerPadding),
     y |-> RAdd(drawn[j].slot.y, drawn[j].slot.h),
     w |-> RInt(outputWidth - 2 * config.outerPadding),
     h |-> RInt(config.innerSpacing)] : j \in DOMAIN drawn \ {Len(items)} }

\* C18: in generateStitchedImage drawing an item changes no pixel outside
\* that item's slot: the outer padding and the inter-item spacing keep the
\* backgroundColor they were filled with, and no item's content lies in
\* another item's slot.
C18_DrawingStaysInSlot ==
  stitchPc \in {"drawing", "done", "failedEncode"} =>
    /\ \A strip \in PaddingStrips \cup SpacingStrips :
         RectInside(strip, background)
    /\ \A k \in DOMAIN drawn :
         /\ RectInside(drawn[k].painted, drawn[k].slot)
         /\ RectInside(drawn[k].filled, drawn[k].slot)
         /\ \A strip \in PaddingStrips \cup SpacingStrips :
              /\ RectsDisjoint(drawn[k].painted, strip)
              /\ RectsDisjoint(drawn[k].filled, strip)
         /\ \A j \in DOMAIN drawn \ {k} :
              /\ RectsDisjoint(drawn[k].painted, drawn[j].slot)
              /\ RectsDisjoint(drawn[k].filled, drawn[j].slot)

\* Two items with padding and spacing between them; the first image, zoomed
\* in, reaches over the spacing into the second item's slot and over the
\* padding.
C18_Witness ==
  /\ stitchPc = "done"
  /\ Len(drawn) = 2
  /\ config.outerPadding > 0
  /\ config.innerSpacing > 0
  /\ ~RectsDisjoint(drawn[1].rect, drawn[2].slot)
  /\ \E strip \in PaddingStrips : ~RectsDisjoint(drawn[1].rect, strip)

\* C19: in whatever order the loads complete, the image drawn into the i-th
\* slot is the one loaded from items[i].url, and the slot's height, the pan
\* and the zoom are those of items[i]: the output is a function of items,
\* config and outputWidth alone.
C19_OrderIndependent ==
  stitchPc \in {"drawing", "done", "failedEncode"} =>
    /\ Len(drawData) = Len(items)
    /\ \A i \in DOMAIN drawData :
         LET wh == IF items[i].ratio = "original" THEN items[i].img
                   ELSE RatioWH(items[i].ratio)
         IN  /\ drawData[i].img = items[i].img
             /\ drawData[i].item = items[i]
             /\ drawData[i].slotHeight
                  = RDiv(RMul(contentWidth, RInt(wh[2])), RInt(wh[1]))
    /\ \A k \in DOMAIN drawn :
         LET z == IF items[k].scale = RInt(0) THEN RInt(1) ELSE items[k].scale
         IN  /\ drawn[k].id = items[k].id
             /\ drawn[k].img = items[k].img
             /\ drawn[k].slot.h = drawData[k].slotHeight
             /\ RMul(drawn[k].drawW, RInt(items[k].img[2]))
                  = RMul(drawn[k].drawH, RInt(items[k].img[1]))
             /\ drawn[k].rect.w = RMul(z, drawn[k].drawW)
             /\ RSub(drawn[k].rect.cx, SlotCx(drawn[k]))
                  = RMul(z, Percent(items[k].x, drawn[k].drawW))
             /\ RSub(drawn[k].rect.cy, SlotCy(drawn[k]))
                  = RMul(z, Percent(items[k].y, drawn[k].drawH))

\* Two different images, the second loaded first, both drawn.
C19_Witness ==
  /\ stitchPc = "done"
  /\ arrived = <<2, 1>>
  /\ items[1].img # items[2].img
  /\ Len(drawn) = 2

\* C20: after any sequence of operations of a crop editor (load image, wheel
\* zoom, pinch zoom, zoom slider, drag, reset, clear) the CropArea's scale
\* lies in [0.2, 3.0], in the 9-Grid editor and in the Moments cover cropper.
C20_CropScaleInDomain ==
  RLe(Rat(1, 5), crop.scale) /\ RLe(crop.scale, RInt(3))

\* A pinch in the Moments cover cropper that the upper limit stopped.
C20_Witness ==
  /\ activeTab = "moments"
  /\ cropEvent = "pinch"
  /\ crop.scale = RInt(3)

\* C21: the three fatal outcomes of an export abort the call with different
\* error values: the value the call is rejected with is the error Event of
\* a load exactly when a source failed to decode, the Error of the missing
\* drawing context exactly when no context was available, and the Error of
\* the empty blob exactly when the encoding produced no data; a call that
\* has not failed carries no error.  So the error value alone tells the
\* caller which failure it was.
C21_ErrorsDistinguishable ==
  /\ StitchFailed <=> stitchError # NoError
  /\ stitchPc = "failedDecode" <=>
       \E i \in DOMAIN loads : loads[i] = "error" /\ stitchError = ErrorEvent(i)
  /\ stitchPc = "failedContext" <=> stitchError = ContextError
  /\ stitchPc = "failedEncode" <=> stitchError = EmptyBlobError

\* An export of two items that was drawn in full and then produced no data.
C21_Witness ==
  /\ stitchPc = "failedEncode"
  /\ Len(drawn) = 2
  /\ stitchError = EmptyBlobError
  /\ stitchError \notin {ContextError, ErrorEvent(1), ErrorEvent(2)}

(***************************************************************************)
(* The exports as the handlers run them.                                   *)
(***************************************************************************)
Busy == IF loading \/ isGenerating THEN 1 ELSE 0

Ended == exports.succeeded + exports.failed

\* C22: with every image load firing its load or its error event, every
\* export the user starts ends, in exactly one of success or failure (the
\* started exports are the ended ones plus the one under way, and the one
\* under way ends); it is never retried (a call begins only under the busy
\* flag, the flag is set only by the user's click, and the end of a call
\* leaves it cleared); the busy flag is false again after either outcome;
\* and no export is started while the flag is true.
C22_ExportEnds ==
  /\ [](exports.started = Ended + Busy)
  /\ [][exports'.started # exports.started =>
          /\ ~loading /\ ~isGenerating
          /\ exports'.started = exports.started + 1]_vars
  /\ [][(~loading /\ loading') \/ (~isGenerating /\ isGenerating') =>
          exports'.started = exports.started + 1]_vars
  /\ [][gridPc = "idle" /\ gridPc' # "idle" => loading /\ loading']_vars
  /\ [][stitchPc = "idle" /\ stitchPc' # "idle" =>
          isGenerating /\ isGenerating']_vars
  /\ [][gridPc # "idle" /\ gridPc' = "idle" => ~loading']_vars
  /\ [][stitchPc # "idle" /\ stitchPc' = "idle" => ~isGenerating']_vars
  /\ \A n \in 1..MaxExports :
       (exports.started = n) ~> (Ended = n /\ ~loading /\ ~isGenerating)
  /\ loading ~> ~loading
  /\ isGenerating ~> ~isGenerating

\* The stitcher after one export that failed and one that succeeded, the
\* flag false again.
C22_Witness ==
  /\ activeTab = "stitch"
  /\ exports = [started |-> 2, succeeded |-> 1, failed |-> 1]
  /\ ~isGenerating
  /\ stitchPc = "idle"

(***************************************************************************)
(* The slots of a stitch.                                                  *)
(***************************************************************************)
\* The height the layout rule gives the slot of the k-th item: the content
\* width times height over width, of the image for the ratio "original" and
\* of the ratio "w:h" otherwise.
RuleSlotHeight(k) ==
  LET cw == RInt(outputWidth - 2 * config.outerPadding)
      wh == IF items[k].ratio = "original" THEN items[k].img
            ELSE RatioWH(items[k].ratio)
  IN  RDiv(RMul(cw, RInt(wh[2])), RInt(wh[1]))

\* The top the layout rule gives the slot of the k-th item.
RECURSIVE RuleSlotTop(_)
RuleSlotTop(k) ==
  IF k = 1 THEN RInt(config.outerPadding)
  ELSE RAdd(RuleSlotTop(k - 1),
            RAdd(RuleSlotHeight(k - 1), RInt(config.innerSpacing)))

SameRect(r, s) == r.x = s.x /\ r.y = s.y /\ r.w = s.w /\ r.h = s.h

\* A single untransformed item in its original ratio, no padding or spacing.
PlainSingleItem ==
  /\ Len(items) = 1
  /\ items[1].ratio = "original"
  /\ items[1].scale = RInt(1)
  /\ items[1].x = RInt(0)
  /\ items[1].y = RInt(0)
  /\ config.outerPadding = 0
  /\ config.innerSpacing = 0

\* C23: for a single item with ratio "original", scale 1, x 0, y 0 and no
\* padding or spacing, the slot is the whole logical canvas, outputWidth by
\* outputWidth / imgAspect, and the image's draw rectangle is the slot:
\* drawW = outputWidth, drawH = the slot's height, origin at the slot's
\* top-left; nothing is cropped and no background shows.
C23_PlainItemFillsCanvas ==
  PlainSingleItem /\ Len(drawn) = 1 =>
    LET d      == drawn[1]
        whole  == [x |-> RInt(0), y |-> RInt(0), w |-> RInt(outputWidth),
                   h |-> RDiv(RInt(outputWidth * items[1].img[2]),
                              RInt(items[1].img[1]))]
    IN  /\ d.slot = whole
        /\ background = whole
        /\ totalHeight = whole.h
        /\ d.drawW = whole.w
        /\ d.drawH = whole.h
        /\ SameRect(d.rect, whole)
        /\ d.painted = whole

C23_Witness ==
  /\ PlainSingleItem
  /\ stitchPc = "done"
  /\ Len(drawn) = 1
  /\ drawn[1].img = Img2000x3000
  /\ SameRect(drawn[1].rect, drawn[1].slot)

\* C24: the slots are stacked top to bottom in list order.  Slot i has
\* x = outerPadding, width = outputWidth - 2 * outerPadding, the height of
\* the layout rule and its top at outerPadding plus, for every slot before
\* it, that slot's height and innerSpacing; consecutive slots are disjoint
\* and exactly innerSpacing apart, and the last slot ends at
\* totalHeight - outerPadding.
C24_SlotLayout ==
  \A k \in DOMAIN drawn :
    LET s == drawn[k].slot
    IN  /\ drawn[k].id = items[k].id
        /\ s.x = RInt(config.outerPadding)
        /\ s.w = RInt(outputWidth - 2 * config.outerPadding)
        /\ s.h = RuleSlotHeight(k)
        /\ s.y = RuleSlotTop(k)
        /\ k > 1 =>
             LET t == drawn[k - 1].slot
             IN  /\ RectsDisjoint(t, s)
                 /\ RSub(s.y, RAdd(t.y, t.h)) = RInt(config.innerSpacing)
        /\ k = Len(items) =>
             RAdd(s.y, s.h) = RSub(totalHeight, RInt(config.outerPadding))

\* Two slots of different kinds, with padding and spacing, both drawn.
C24_Witness ==
  /\ stitchPc = "done"
  /\ Len(drawn) = 2
  /\ items[1].ratio = "original"
  /\ items[2].ratio = "9:16"
  /\ config.outerPadding = 18
  /\ config.innerSpacing = 10
  /\ drawn[2].slot.y = RuleSlotTop(2)


\* ------------------------------------------------------------------------
\* Story editor: the anchor tile.
\* ------------------------------------------------------------------------

AnchorPositions == {k \in DOMAIN items : items[k].id = AnchorId}

\* C25: in the Story editor the anchor tile is kept through every editor
\* operation: the list holds it exactly once, with ratio 1:1, scale 1 and
\* offsets 0, and it is never the selected item.
C25_AnchorKept ==
  activeTab = "moments" =>
    /\ Cardinality(AnchorPositions) = 1
    /\ \A k \in AnchorPositions :
         /\ items[k].ratio = "1:1"
         /\ items[k].scale = RInt(1)
         /\ items[k].x = RInt(0)
         /\ items[k].y = RInt(0)
    /\ selectedId # AnchorId

\* a reorder drag has dropped an item on the anchor's place, so the anchor
\* is no longer the first tile, and it is still intact.
C25_Witness ==
  /\ activeTab = "moments"
  /\ reorderStep.activeId # NoId
  /\ reorderStep.targetId = AnchorId
  /\ items[1].id # AnchorId
  /\ AnchorPositions # {}

\* ------------------------------------------------------------------------
\* Story editor: the contain target and the aspect pre-load.
\* ------------------------------------------------------------------------

\* contain from the zoomed item's own image and the aspect of its slot.
ZoomActualContain ==
  LET imgAspect  == Rat(ZoomPrev.img[1], ZoomPrev.img[2])
      wh         == RatioWH(ZoomPrev.ratio)
      slotAspect == IF ZoomPrev.ratio = "original" THEN imgAspect
                    ELSE Rat(wh[1], wh[2])
  IN  IF RGt(imgAspect, slotAspect) THEN RDiv(slotAspect, imgAspect)
      ELSE RDiv(imgAspect, slotAspect)

\* C26: every applyZoom call takes its contain target from the zoomed item's
\* actual image aspect, whether or not the item's aspect pre-load has
\* completed; a call that precedes the pre-load does not snap to a contain
\* value of another aspect.
C26_ContainFromActualAspect ==
  Zoomed =>
    /\ ZoomContain = ZoomActualContain
    /\ (zoomCall.id \notin zoomCall.aspects /\ ZoomSnapsToContain)
         => ZoomNew.scale = ZoomActualContain


\* ------------------------------------------------------------------------
\* Story editor: one-pointer drag.
\* ------------------------------------------------------------------------

\* C27: during a one-pointer drag in the Story editor the item's pan differs
\* from its pan at pointer-down by 0.2 times the pointer's total displacement
\* since then, however the pointer-move events and the re-renders interleave.
C27_DragAccumulates ==
  (activeTab = "moments" /\ panTrace.id # NoId /\ panTrace.id \in ItemIds(items)) =>
    LET item == ItemById(items, panTrace.id)
    IN  /\ item.x = RAdd(panTrace.x, RMul(RInt(panTrace.dx), SENSITIVITY))
        /\ item.y = RAdd(panTrace.y, RMul(RInt(panTrace.dy), SENSITIVITY))

\* ------------------------------------------------------------------------
\* Reorder steps of both editors.
\* ------------------------------------------------------------------------

Reordered == reorderStep.activeId # NoId

\* the dragged item is the only one whose place changed: without it the list
\* is what it was, and it is in the list once.
OnlyDraggedMoved ==
  /\ Len(reorderStep.after) = Len(reorderStep.before)
  /\ FilterOut(reorderStep.after, reorderStep.activeId)
       = FilterOut(reorderStep.before, reorderStep.activeId)
  /\ Cardinality({k \in DOMAIN reorderStep.after :
                    reorderStep.after[k].id = reorderStep.activeId}) = 1

\* the dragged item stands at the index of the item under the pointer, in
\* the list the handler looked the indices up in or in the previous list.
DraggedAtTarget ==
  IndexOf(reorderStep.after, reorderStep.activeId)
    \in {IndexOf(reorderStep.seen, reorderStep.targetId),
         IndexOf(reorderStep.before, reorderStep.targetId)}

\* C28: every reorder step of either editor gives a permutation of the
\* previous list in which only the dragged item changed place, to the index
\* of the item under the pointer, also when the step works from a list ref
\* that is behind the state.
C28_ReorderStepMovesDragged ==
  Reordered => (OnlyDraggedMoved /\ DraggedAtTarget)

\* The same of the Long Stitch editor alone, whose handler takes indices and
\* list from one closure.
C28_LongStitchStep ==
  (Reordered /\ activeTab = "stitch") => (OnlyDraggedMoved /\ DraggedAtTarget)

\* The same of the Story editor's steps whose ref equals the state.
C28_StoryFreshStep ==
  (Reordered /\ activeTab = "moments" /\ reorderStep.seen = reorderStep.before)
    => (OnlyDraggedMoved /\ DraggedAtTarget)

\* A Story step keeps the items, whatever it moves.
C28_StoryPermutation ==
  (Reordered /\ activeTab = "moments") =>
    /\ Len(reorderStep.after) = Len(reorderStep.before)
    /\ ItemIds(reorderStep.after) = ItemIds(reorderStep.before)

\* ------------------------------------------------------------------------
\* Nine-grid crop: the gesture state machine.
\* ------------------------------------------------------------------------

\* The step is a handlePointerMove of a pointer that is down.
CropMoveStep == edits' # edits /\ cropEvent' \in {"drag", "pinch", "move"}

CropPanChanged == crop'.x # crop.x \/ crop'.y # crop.y

CropScaleChanged == crop'.scale # crop.scale

\* C29: a pointer move changes the crop's pan only with exactly one pointer
\* down and a drag in progress, and its scale only with exactly two pointers
\* down; after a pinch has ended with a pointer still down no move pans until
\* all pointers are lifted and one is pressed again; with no pointer down
\* isDragging is false and the pinch reference distance is cleared.
C29_GestureMachine ==
  /\ [][(CropMoveStep /\ CropPanChanged)
          => (activePointers = 1 /\ isDragging)]_vars
  /\ [][(CropMoveStep /\ CropScaleChanged) => activePointers = 2]_vars
  /\ [][(CropMoveStep /\ heldSincePinch) => ~CropPanChanged]_vars
  /\ [](activePointers = 0 => (~isDragging /\ initialPinchDist = 0))

\* a pinch has ended with one pointer left down, and that pointer has moved.
C29_Witness ==
  /\ heldSincePinch
  /\ activePointers = 1
  /\ cropEvent = "move"

\* ------------------------------------------------------------------------
\* Story editor: the snap bands.
\* ------------------------------------------------------------------------

ZoomSnapValues == {ZoomCover, ZoomContain}

\* the new scale is a snap value of the call or outside both snap bands.
ZoomOutsideBands ==
  \/ ZoomNew.scale \in ZoomSnapValues
  \/ /\ RGe(RAbs(RSub(ZoomNew.scale, ZoomCover)), SNAP_THRESHOLD)
     /\ RGe(RAbs(RSub(ZoomNew.scale, ZoomContain)), SNAP_THRESHOLD)

\* a call on a snapped item with a step shorter than the threshold.
ZoomSmallStepFromSnap ==
  /\ Zoomed
  /\ ZoomPrev.scale \in ZoomSnapValues
  /\ RLt(RAbs(zoomCall.delta), SNAP_THRESHOLD)

\* C30 as stated: after every applyZoom call the scale is cover, the call's
\* contain, or at least 0.05 from both, and a step with |delta| < 0.05 from a
\* snapped scale leaves the scale unchanged.
C30_SnapSticky ==
  Zoomed =>
    /\ ZoomOutsideBands
    /\ ZoomSmallStepFromSnap => ZoomNew.scale = ZoomPrev.scale

\* C30, amended: after every applyZoom call the scale is cover, the call's
\* contain, or at least 0.05 from both; a step with |delta| < 0.05 from a
\* snapped scale ends on a snap value, and on the same one whenever cover and
\* contain are at least 0.1 apart.
C30_SnapBands ==
  Zoomed =>
    /\ ZoomOutsideBands
    /\ ZoomSmallStepFromSnap =>
         /\ ZoomNew.scale \in ZoomSnapValues
         /\ RGe(RSub(ZoomCover, ZoomContain), Rat(1, 10))
              => ZoomNew.scale = ZoomPrev.scale

\* a nonzero step shorter than the threshold from a snapped scale, the two
\* snap values at least 0.1 apart: the scale stays.
C30_Witness ==
  /\ ZoomSmallStepFromSnap
  /\ zoomCall.delta # RInt(0)
  /\ RGe(RSub(ZoomCover, ZoomContain), Rat(1, 10))
  /\ ZoomNew.scale = ZoomPrev.scale

\* a step shorter than the threshold takes the scale from cover to a contain
\* that is less than 0.1 away.
C30_HopsToContain ==
  /\ ZoomSmallStepFromSnap
  /\ ZoomPrev.scale = ZoomCover
  /\ ZoomNew.scale = ZoomContain
  /\ ZoomContain # ZoomCover
=============================================================================
